---- MODULE Spec2Model ----
(***************************************************************************)
(* A model of the MCP audit tooling:                                       *)
(*   - the stdio interception proxy (mcp_proxy.py, enhanced_mcp_proxy.py,  *)
(*     mcp_proxy_runner.py): three forwarding tasks, the per-line capture  *)
(*     and the runner's process exit;                                      *)
(*   - the config rewriter (MCPProxyManager and the `proxy` CLI command);  *)
(*   - the recursion fixer (fix_recursive_config.py);                      *)
(*   - the event-store writers and the stream reader;                      *)
(*   - the timeline correlator (tracing/timeline_analyzer.py) and the      *)
(*     cognitive scorer (analyzers/cognitive_analyzer.py);                 *)
(*   - repeated correlator runs over one event-store snapshot;             *)
(*   - the telemetry exporter (integrations/opentelemetry.py) and the      *)
(*     integration manager that constructs it;                             *)
(*   - the LLM reasoning sessions of the enhanced proxy, by count and by   *)
(*     identity;                                                           *)
(*   - the flow identifiers and the interaction counter of the exporter.   *)
(* Each part has its own specification over the shared variables; the      *)
(* variables of the other parts stay at their idle values.                 *)
(***************************************************************************)
EXTENDS Naturals, Integers, Sequences, FiniteSets, Bags, TLC

VARIABLES
    \* ---- stdio proxy ----
    mainPc,        \* position of main()/start_proxy_server
    spawnError,    \* the child could not be spawned or exited within the 100 ms sleep
    startOutcome,  \* how start_proxy_server ended: "none", "normal", "raised"
    exitCode,      \* exit code of the proxy process, NoExit while it runs
    child,         \* "none", "alive", "exited"
    hostReadAtExit, \* {} while the child has not exited, else {how many host lines had been read when it did}
    hostPipe,      \* lines the host has sent that the proxy has not read yet
    hostClosed,    \* the host closed the proxy's stdin
    childOutPipe,  \* lines the child wrote to its stdout, not read yet
    childErrPipe,  \* lines the child wrote to its stderr, not read yet
    childSent,     \* how many lines the child has written (stdout and stderr)
    inPc, inLine,  \* _forward_stdin_to_server: position and the line it holds
    outPc, outLine,\* _forward_server_to_stdout: position and the line it holds
    errPc,         \* _monitor_stderr: position
    hostRead,      \* every line read from the proxy's stdin, in order
    childStdin,    \* every line written to the child's stdin, in order
    childRead,     \* every line read from the child's stdout, in order
    proxyStdout,   \* everything written to the proxy's stdout (fd 1), in order
    messages,      \* the mcp_audit_messages.jsonl stream
    inFaults,      \* capture faults injected so far on the in-path
    outFaults,     \* capture faults injected so far on the out-path
    \* ---- config rewriter ----
    projFile,      \* ./.cursor/mcp.json: {} when absent, else {its contents}
    homeFile,      \* ~/.cursor/mcp.json: {} when absent, else {its contents}
    original_config, \* original_config of the long-lived manager: {} is None
    pythonEnv,     \* which interpreter _create_proxy_config finds
    lastOp,        \* the last rewriter operation and what it reported
    prevOp,        \* the operation before it
    filesBeforeLast, \* both files as they were before the last operation
    filesBeforePrev, \* both files as they were before the operation before it
    opCount,       \* rewriter operations performed
    \* ---- recursion fixer ----
    uOriginal,     \* the real server entry that was wrapped
    uEntry,        \* the (wrapped) entry handed to the fixer
    uDepth,        \* how many times it was wrapped
    uResult,       \* {} before detect_recursive_config ran, else {its result}
    \* ---- event store writers ----
    storeFiles,    \* the lines of each event-store file, in file order
    storeWrites,   \* writes attempted so far
    \* ---- event stream reader ----
    rFile,         \* the lines of the stream file being read
    rResult,       \* {} before a load ran, else {what it returned}
    \* ---- timeline correlator and cognitive scorer ----
    tlMessages,    \* what load_messages returned
    tlDecisions,   \* what load_llm_decisions returned
    tlEvents,      \* {} before merge_timeline_data ran, else {the merged timeline}
    tlFlows,       \* {} before group_into_flows ran, else {the list of flows}
    tlAnalysis,    \* {} before generate_cognitive_analysis ran, else {its result}
    scInteraction, \* {} or {an interaction a caller hands to analyze_interaction}
    scLoad,        \* {} before analyze_interaction ran on it, else {its metrics}
    \* ---- repeated correlator runs ----
    rrMessages,    \* the message stream of the event-store snapshot
    rrDecisions,   \* the decision stream of the snapshot
    rrSeeds,       \* the string-hash seed of the process of each run made so far
    rrOutputs,     \* the flow output of each run made so far
    \* ---- telemetry exporter ----
    exTracerProvider, \* {} while the global tracer provider is the default one, else {its resource}
    exMeterProvider,  \* the same for the global meter provider
    exTracerSetups,   \* how many times trace.set_tracer_provider was called
    exMeterSetups,    \* how many times metrics.set_meter_provider was called
    exManagers,       \* how many IntegrationManager objects there are
    exLoops,          \* the bag of exporter loops, one per OpenTelemetryIntegration
    exLast,           \* what the latest export iteration did
    \* ---- LLM reasoning sessions of the enhanced proxy ----
    seSessions,    \* active_reasoning_sessions: the phases of its entries, in insertion order
    seDecisions,   \* how many entries LLMDecisionInterceptor.active_decisions has
    seLog,         \* how many decisions were completed and persisted
    seFrames,      \* how many frames of each kind were analysed
    seLast,        \* what the analysis of the latest frame did
    \* ---- flow identifiers ----
    fiWindow,      \* time_window_seconds the TimelineAnalyzer was constructed with
    fiZone,        \* the local time zone of the process that runs the correlator
    fiTimes,       \* parsed_timestamp of each timeline event, in milliseconds, sorted
    fiIds,         \* {} before group_into_flows ran, else {the flow_id numbers of its flows}
    \* ---- decision sessions, by identity ----
    paNow,         \* datetime.utcnow() in whole milliseconds
    paSent,        \* requests the host has sent so far (request ids are 1..paSent)
    paOutstanding, \* the requests the server has not answered yet
    paSessions,    \* active_reasoning_sessions: its entries, in insertion order
    paActive,      \* LLMDecisionInterceptor.active_decisions: its traces
    paLog,         \* the decisions persisted so far, in order
    \* ---- interaction counter ----
    ctCaptured,    \* how many events the messages file holds (all of the last hour)
    ctCounted,     \* the events (by position in the file) added to mcp_interactions_total so far
    ctPc           \* _continuous_export: "off", "export" (an iteration is due), "sleep"

proxyVars == <<mainPc, spawnError, startOutcome, exitCode, child, hostReadAtExit, hostPipe,
               hostClosed, childOutPipe, childErrPipe, childSent, inPc, inLine,
               outPc, outLine, errPc, hostRead, childStdin, childRead,
               proxyStdout, messages, inFaults, outFaults>>
cfgVars == <<projFile, homeFile, original_config, pythonEnv, lastOp, prevOp,
             filesBeforeLast, filesBeforePrev, opCount>>
unwrapVars == <<uOriginal, uEntry, uDepth, uResult>>
storeVars == <<storeFiles, storeWrites>>
readVars == <<rFile, rResult>>
flowVars == <<tlMessages, tlDecisions, tlEvents, tlFlows, tlAnalysis, scInteraction,
              scLoad>>
rerunVars == <<rrMessages, rrDecisions, rrSeeds, rrOutputs>>
exportVars == <<exTracerProvider, exMeterProvider, exTracerSetups, exMeterSetups, exManagers, exLoops, exLast>>
sessionVars == <<seSessions, seDecisions, seLog, seFrames, seLast>>
identVars == <<fiWindow, fiZone, fiTimes, fiIds>>
pairVars == <<paNow, paSent, paOutstanding, paSessions, paActive, paLog>>
countVars == <<ctCaptured, ctCounted, ctPc>>
vars == <<proxyVars, cfgVars, unwrapVars, storeVars, readVars, flowVars, rerunVars, exportVars, sessionVars, identVars, pairVars, countVars>>

\* What each part leaves alone: the variables of the other parts.
notProxyVars == <<cfgVars, unwrapVars, storeVars, readVars, flowVars, rerunVars, exportVars, sessionVars, identVars, pairVars, countVars>>
notCfgVars == <<proxyVars, unwrapVars, storeVars, readVars, flowVars, rerunVars, exportVars, sessionVars, identVars, pairVars, countVars>>
notUnwrapVars == <<proxyVars, cfgVars, storeVars, readVars, flowVars, rerunVars, exportVars, sessionVars, identVars, pairVars, countVars>>
notStoreVars == <<proxyVars, cfgVars, unwrapVars, readVars, flowVars, rerunVars, exportVars, sessionVars, identVars, pairVars, countVars>>
notReadVars == <<proxyVars, cfgVars, unwrapVars, storeVars, flowVars, rerunVars, exportVars, sessionVars, identVars, pairVars, countVars>>
notFlowVars == <<proxyVars, cfgVars, unwrapVars, storeVars, readVars, rerunVars, exportVars, sessionVars, identVars, pairVars, countVars>>
notRerunVars == <<proxyVars, cfgVars, unwrapVars, storeVars, readVars, flowVars, exportVars, sessionVars, identVars, pairVars, countVars>>
notExportVars == <<proxyVars, cfgVars, unwrapVars, storeVars, readVars, flowVars, rerunVars, sessionVars, identVars, pairVars, countVars>>
notSessionVars == <<proxyVars, cfgVars, unwrapVars, storeVars, readVars, flowVars, rerunVars, exportVars, identVars, pairVars, countVars>>
notIdentVars == <<proxyVars, cfgVars, unwrapVars, storeVars, readVars, flowVars, rerunVars, exportVars, sessionVars, pairVars, countVars>>
notPairVars == <<proxyVars, cfgVars, unwrapVars, storeVars, readVars, flowVars, rerunVars, exportVars, sessionVars, identVars, countVars>>
notCountVars == <<proxyVars, cfgVars, unwrapVars, storeVars, readVars, flowVars, rerunVars, exportVars, sessionVars, identVars, pairVars>>

(***************************************************************************)
(* Bounds of the model.                                                    *)
(***************************************************************************)
MaxHostLines == 1
MaxChildLines == 2
MaxFaults == 1

(***************************************************************************)
(* Lines on the wire.  A line is named by its content class.               *)
(***************************************************************************)
CallLine == "call"      \* {"jsonrpc":"2.0","id":1,"method":"tools/call",...}
ResultLine == "result"  \* {"jsonrpc":"2.0","id":1,"result":{...}}
NoiseLine == "noise"    \* this is not json
ArrayLine == "array"    \* [1, 2]  (valid JSON, not an object)
NoLine == "none"
HostLines == {CallLine, ArrayLine}
ChildLines == {ResultLine, NoiseLine}
StderrLine == "stderr"

\* A burst of one or more log records written by the root logger's handlers.
LogLine == "log"

IsPrefix(s, t) == Len(s) <= Len(t) /\ SubSeq(t, 1, Len(s)) = s

\* MCPMessageDirection values used by the two forwarding paths.
\* ("->" stands for the arrow character of the enum values.)
USER_TO_LLM == "user->llm"
LLM_TO_MCP_CLIENT == "llm->mcp_client"
MCP_CLIENT_TO_SERVER == "mcp_client->server"

\* json.loads(message) succeeds.
ParsesAsJson(line) == line \in {CallLine, ResultLine, ArrayLine}

\* MCPMessageTrace(payload=json_data, ...) validates: payload is Dict[str, Any].
IsObjectPayload(line) == line \in {CallLine, ResultLine}

(***************************************************************************)
(* Capture of one line.  `fault` is what the environment makes fail:       *)
(*   "callback": the audit callback raises into _capture_message           *)
(*   "append":   the append to mcp_audit_messages.jsonl raises             *)
(*   "hook":     the LLM-decision hook, the prompt inference or the        *)
(*               enhanced trace log raises                                 *)
(***************************************************************************)
Faults == {"callback", "append", "hook"}
NoFault == "none"

\* The exception raised inside the try body of MCPProxy._capture_message.
BaseCaptureException(line, fault) ==
    IF ~ParsesAsJson(line) THEN "JSONDecodeError"
    ELSE IF ~IsObjectPayload(line) THEN "ValidationError"
    ELSE IF fault = "callback" THEN "CallbackError"
    ELSE "none"

\* The except clauses of _capture_message: `except json.JSONDecodeError` only.
BaseCaptureCatches_OnlyJson(exc) == exc = "JSONDecodeError"

\* The except clauses of _capture_message: json.JSONDecodeError, then Exception.
BaseCaptureCatches(exc) ==
    exc = "JSONDecodeError" \/ exc \in {"ValidationError", "CallbackError", "OSError"}

\* The exception raised inside the try body of EnhancedMCPProxy._capture_message:
\* the hook, the inference and the enhanced log each catch their own errors.
EnhancedCaptureException(line, fault) ==
    IF ~ParsesAsJson(line) THEN "JSONDecodeError"
    ELSE IF ~IsObjectPayload(line) THEN "ValidationError"
    ELSE "none"

\* The except clauses of EnhancedMCPProxy._capture_message.
EnhancedCaptureCatches(exc) ==
    exc = "JSONDecodeError" \/ exc \in {"ValidationError", "CallbackError", "OSError"}

\* Whether the whole capture (super()._capture_message, then the enhanced
\* analysis) raises into the forwarding loop.
CaptureRaises(line, fault) ==
    LET b == BaseCaptureException(line, fault)
        e == EnhancedCaptureException(line, fault)
    IN  \/ (b # "none" /\ ~BaseCaptureCatches(b))
        \/ (e # "none" /\ ~EnhancedCaptureCatches(e))

\* latency_ms of the trace built for a line: MCPMessageTrace(...,
\* latency_ms=None), written by the callback as it is.  {} is None.
TraceLatency(line, direction) == {}

\* Events appended to mcp_audit_messages.jsonl for any line that is not blank.
CaptureEvents_NoParse(line, direction, fault) ==
    IF fault \in {"callback", "append"} THEN <<>>
    ELSE <<[direction |-> direction, payload |-> line,
            latency_ms |-> TraceLatency(line, direction)]>>

\* Events appended to mcp_audit_messages.jsonl by the capture of one line:
\* enhanced_audit_message_callback runs only once the line parsed and the
\* trace was built, and writes one record unless the append fails.
CaptureEvents(line, direction, fault) ==
    IF BaseCaptureException(line, NoFault) # "none" THEN <<>>
    ELSE IF fault \in {"callback", "append"} THEN <<>>
    ELSE <<[direction |-> direction, payload |-> line,
            latency_ms |-> TraceLatency(line, direction)]>>

\* The events of one capture, each marked with the position `n` its source
\* line has among the lines read on its path.
FromLine(events, n) ==
    [i \in 1..Len(events) |->
        [direction |-> events[i].direction, payload |-> events[i].payload,
         latency_ms |-> events[i].latency_ms, n |-> n]]

\* The stream with one capture's events put first.
AppendEvents_Front(stream, events) == events \o stream

\* open(messages_file, 'a') and f.write(...): the events go to the end of
\* the stream.
AppendEvents(stream, events) == stream \o events

\* Log records of level INFO or above emitted during the capture of one line
\* (logger.debug of a non-JSON line is below the root level).
CaptureLogs(line, fault) ==
    IF ~ParsesAsJson(line) THEN <<>> ELSE <<LogLine>>

\* The root logger's handlers, set by logging.basicConfig in the runner:
\* a FileHandler and StreamHandler(sys.stdout).
LogToStdout(stdout, records) == stdout \o records

(***************************************************************************)
(* main() and start_proxy_server                                           *)
(***************************************************************************)
NoExit == 0 - 1

\* How start_proxy_server ends when `exc` is raised inside its try body:
\* `except Exception` logs, cleans up and falls off the end of the function.
StartProxyServerOutcome(exc) == "normal"

\* Exit code of `asyncio.run(main())`: main re-raises what reaches it.
ProcessExitCode(outcome) == IF outcome = "raised" THEN 1 ELSE 0

\* subprocess.Popen(...) then the log record "Started MCP server proxy";
\* a Popen failure is caught by the except clause, which logs and cleans up
\* (server_process is None, so cleanup does nothing).
Start ==
    /\ UNCHANGED notProxyVars
    /\ UNCHANGED hostReadAtExit
    /\ mainPc = "idle"
    /\ \E spawned \in BOOLEAN :
         IF spawned
         THEN /\ child' = "alive"
              /\ mainPc' = "sleeping"
              /\ UNCHANGED <<spawnError, startOutcome>>
         ELSE /\ child' = "none"
              /\ spawnError' = TRUE
              /\ startOutcome' = StartProxyServerOutcome("OSError")
              /\ mainPc' = "returned"
    /\ proxyStdout' = LogToStdout(proxyStdout, <<LogLine>>)
    /\ UNCHANGED <<exitCode, hostPipe, hostClosed, childOutPipe, childErrPipe,
                   childSent, inPc, inLine, outPc, outLine, errPc, hostRead,
                   childStdin, childRead, messages, inFaults, outFaults>>

\* After asyncio.sleep(0.1): poll().  An exited child makes the function read
\* its stderr, log and raise RuntimeError, which the except clause catches
\* (log, cleanup); otherwise the three forwarding tasks are gathered.
Poll ==
    /\ UNCHANGED notProxyVars
    /\ UNCHANGED hostReadAtExit
    /\ mainPc = "sleeping"
    /\ IF child = "exited"
       THEN /\ spawnError' = TRUE
            /\ childErrPipe' = <<>>
            /\ proxyStdout' = LogToStdout(proxyStdout, <<LogLine>>)
            /\ startOutcome' = StartProxyServerOutcome("RuntimeError")
            /\ mainPc' = "returned"
            /\ UNCHANGED <<inPc, outPc, errPc>>
       ELSE /\ mainPc' = "running"
            /\ inPc' = "read"
            /\ outPc' = "read"
            /\ errPc' = "read"
            /\ UNCHANGED <<spawnError, childErrPipe, proxyStdout, startOutcome>>
    /\ UNCHANGED <<exitCode, child, hostPipe, hostClosed, childOutPipe, childSent,
                   inLine, outLine, hostRead, childStdin, childRead, messages,
                   inFaults, outFaults>>

PathDone(pc) == pc \in {"eof", "error"}

\* asyncio.gather returns once all three tasks have ended (each task catches
\* its own exceptions, so gather never raises).
GatherDone ==
    /\ UNCHANGED notProxyVars
    /\ UNCHANGED hostReadAtExit
    /\ mainPc = "running"
    /\ PathDone(inPc) /\ PathDone(outPc) /\ PathDone(errPc)
    /\ startOutcome' = "normal"
    /\ mainPc' = "returned"
    /\ UNCHANGED <<spawnError, exitCode, child, hostPipe, hostClosed, childOutPipe,
                   childErrPipe, childSent, inPc, inLine, outPc, outLine, errPc,
                   hostRead, childStdin, childRead, proxyStdout, messages,
                   inFaults, outFaults>>

\* main() after start_proxy_server: a normal return logs "shutdown completed"
\* and the process exits; an exception is logged and re-raised.
MainExit ==
    /\ UNCHANGED notProxyVars
    /\ UNCHANGED hostReadAtExit
    /\ mainPc = "returned"
    /\ mainPc' = "exited"
    /\ exitCode' = ProcessExitCode(startOutcome)
    /\ proxyStdout' = LogToStdout(proxyStdout, <<LogLine>>)
    /\ UNCHANGED <<spawnError, startOutcome, child, hostPipe, hostClosed,
                   childOutPipe, childErrPipe, childSent, inPc, inLine, outPc,
                   outLine, errPc, hostRead, childStdin, childRead, messages,
                   inFaults, outFaults>>

(***************************************************************************)
(* The host and the child process (the environment), observed from the    *)
(* moment the child is spawned until start_proxy_server returns.           *)
(***************************************************************************)
HostSend ==
    /\ UNCHANGED notProxyVars
    /\ UNCHANGED hostReadAtExit
    /\ mainPc = "running"
    /\ ~hostClosed
    /\ Len(hostRead) + Len(hostPipe) < MaxHostLines
    /\ \E line \in HostLines : hostPipe' = Append(hostPipe, line)
    /\ UNCHANGED <<mainPc, spawnError, startOutcome, exitCode, child, hostClosed,
                   childOutPipe, childErrPipe, childSent, inPc, inLine, outPc,
                   outLine, errPc, hostRead, childStdin, childRead, proxyStdout,
                   messages, inFaults, outFaults>>

HostEOF ==
    /\ UNCHANGED notProxyVars
    /\ UNCHANGED hostReadAtExit
    /\ mainPc = "running"
    /\ ~hostClosed
    /\ hostClosed' = TRUE
    /\ UNCHANGED <<mainPc, spawnError, startOutcome, exitCode, child, hostPipe,
                   childOutPipe, childErrPipe, childSent, inPc, inLine, outPc,
                   outLine, errPc, hostRead, childStdin, childRead, proxyStdout,
                   messages, inFaults, outFaults>>

ChildEmit ==
    /\ UNCHANGED notProxyVars
    /\ UNCHANGED hostReadAtExit
    /\ mainPc = "running"
    /\ child = "alive"
    /\ childSent < MaxChildLines
    /\ \E line \in ChildLines : childOutPipe' = Append(childOutPipe, line)
    /\ childSent' = childSent + 1
    /\ UNCHANGED <<mainPc, spawnError, startOutcome, exitCode, child, hostPipe,
                   hostClosed, childErrPipe, inPc, inLine, outPc, outLine, errPc,
                   hostRead, childStdin, childRead, proxyStdout, messages,
                   inFaults, outFaults>>

ChildErr ==
    /\ UNCHANGED notProxyVars
    /\ UNCHANGED hostReadAtExit
    /\ mainPc \in {"sleeping", "running"}
    /\ child = "alive"
    /\ childSent < MaxChildLines
    /\ childErrPipe' = Append(childErrPipe, StderrLine)
    /\ childSent' = childSent + 1
    /\ UNCHANGED <<mainPc, spawnError, startOutcome, exitCode, child, hostPipe,
                   hostClosed, childOutPipe, inPc, inLine, outPc, outLine, errPc,
                   hostRead, childStdin, childRead, proxyStdout, messages,
                   inFaults, outFaults>>

\* The child exits: its ends of the pipes close, what it wrote stays readable.
ChildExit ==
    /\ UNCHANGED notProxyVars
    /\ hostReadAtExit' = {Len(hostRead)}
    /\ mainPc \in {"sleeping", "running"}
    /\ child = "alive"
    /\ child' = "exited"
    /\ UNCHANGED <<mainPc, spawnError, startOutcome, exitCode, hostPipe, hostClosed,
                   childOutPipe, childErrPipe, childSent, inPc, inLine, outPc,
                   outLine, errPc, hostRead, childStdin, childRead, proxyStdout,
                   messages, inFaults, outFaults>>

(***************************************************************************)
(* _forward_stdin_to_server                                                *)
(***************************************************************************)
\* sys.stdin.readline() in the executor: blocks until a line or end-of-file.
InRead ==
    /\ UNCHANGED notProxyVars
    /\ UNCHANGED hostReadAtExit
    /\ mainPc = "running"
    /\ inPc = "read"
    /\ \/ /\ hostPipe # <<>>
          /\ inLine' = Head(hostPipe)
          /\ hostPipe' = Tail(hostPipe)
          /\ hostRead' = Append(hostRead, Head(hostPipe))
          /\ inPc' = "capture"
       \/ /\ hostPipe = <<>>
          /\ hostClosed
          /\ inPc' = "eof"
          /\ UNCHANGED <<inLine, hostPipe, hostRead>>
    /\ UNCHANGED <<mainPc, spawnError, startOutcome, exitCode, child, hostClosed,
                   childOutPipe, childErrPipe, childSent, outPc, outLine, errPc,
                   childStdin, childRead, proxyStdout, messages, inFaults,
                   outFaults>>

\* The faults the environment may inject into the capture of `line`.
InjectableFaults(line) ==
    IF IsObjectPayload(line) /\ inFaults + outFaults < MaxFaults
    THEN Faults \cup {NoFault}
    ELSE {NoFault}

\* await self._capture_message(line.strip(), LLM_TO_MCP_CLIENT): the whole
\* capture runs before the line is written; an exception it raised would be
\* caught by the loop's except clause, which logs and ends the task.
InCapture ==
    /\ UNCHANGED notProxyVars
    /\ UNCHANGED hostReadAtExit
    /\ mainPc = "running"
    /\ inPc = "capture"
    /\ \E fault \in InjectableFaults(inLine) :
         /\ messages' = AppendEvents(messages,
                FromLine(CaptureEvents(inLine, LLM_TO_MCP_CLIENT, fault), Len(hostRead)))
         /\ inFaults' = IF fault = NoFault THEN inFaults ELSE inFaults + 1
         /\ IF CaptureRaises(inLine, fault)
            THEN /\ inPc' = "error"
                 /\ proxyStdout' = LogToStdout(proxyStdout, <<LogLine>>)
            ELSE /\ inPc' = "write"
                 /\ proxyStdout' = LogToStdout(proxyStdout, CaptureLogs(inLine, fault))
    /\ UNCHANGED <<mainPc, spawnError, startOutcome, exitCode, child, hostPipe,
                   hostClosed, childOutPipe, childErrPipe, childSent, inLine, outPc,
                   outLine, errPc, hostRead, childStdin, childRead, outFaults>>

\* server_process.stdin.write(line); flush().  Writing to the pipe of an
\* exited child raises BrokenPipeError: logged, and the task ends.
InWrite ==
    /\ UNCHANGED notProxyVars
    /\ UNCHANGED hostReadAtExit
    /\ mainPc = "running"
    /\ inPc = "write"
    /\ IF child = "alive"
       THEN /\ childStdin' = Append(childStdin, inLine)
            /\ inPc' = "read"
            /\ UNCHANGED proxyStdout
       ELSE /\ inPc' = "error"
            /\ proxyStdout' = LogToStdout(proxyStdout, <<LogLine>>)
            /\ UNCHANGED childStdin
    /\ inLine' = NoLine
    /\ UNCHANGED <<mainPc, spawnError, startOutcome, exitCode, child, hostPipe,
                   hostClosed, childOutPipe, childErrPipe, childSent, outPc,
                   outLine, errPc, hostRead, childRead, messages, inFaults,
                   outFaults>>

(***************************************************************************)
(* _forward_server_to_stdout                                               *)
(***************************************************************************)
OutRead ==
    /\ UNCHANGED notProxyVars
    /\ UNCHANGED hostReadAtExit
    /\ mainPc = "running"
    /\ outPc = "read"
    /\ \/ /\ childOutPipe # <<>>
          /\ outLine' = Head(childOutPipe)
          /\ childOutPipe' = Tail(childOutPipe)
          /\ childRead' = Append(childRead, Head(childOutPipe))
          /\ outPc' = "capture"
       \/ /\ childOutPipe = <<>>
          /\ child = "exited"
          /\ outPc' = "eof"
          /\ UNCHANGED <<outLine, childOutPipe, childRead>>
    /\ UNCHANGED <<mainPc, spawnError, startOutcome, exitCode, child, hostPipe,
                   hostClosed, childErrPipe, childSent, inPc, inLine, errPc,
                   hostRead, childStdin, proxyStdout, messages, inFaults,
                   outFaults>>

OutCapture ==
    /\ UNCHANGED notProxyVars
    /\ UNCHANGED hostReadAtExit
    /\ mainPc = "running"
    /\ outPc = "capture"
    /\ \E fault \in InjectableFaults(outLine) :
         /\ messages' = AppendEvents(messages,
                FromLine(CaptureEvents(outLine, MCP_CLIENT_TO_SERVER, fault), Len(childRead)))
         /\ outFaults' = IF fault = NoFault THEN outFaults ELSE outFaults + 1
         /\ IF CaptureRaises(outLine, fault)
            THEN /\ outPc' = "error"
                 /\ proxyStdout' = LogToStdout(proxyStdout, <<LogLine>>)
            ELSE /\ outPc' = "write"
                 /\ proxyStdout' = LogToStdout(proxyStdout, CaptureLogs(outLine, fault))
    /\ UNCHANGED <<mainPc, spawnError, startOutcome, exitCode, child, hostPipe,
                   hostClosed, childOutPipe, childErrPipe, childSent, inPc, inLine,
                   outLine, errPc, hostRead, childStdin, childRead, inFaults>>

\* sys.stdout.write(line); flush()
OutWrite ==
    /\ UNCHANGED notProxyVars
    /\ UNCHANGED hostReadAtExit
    /\ mainPc = "running"
    /\ outPc = "write"
    /\ proxyStdout' = Append(proxyStdout, outLine)
    /\ outPc' = "read"
    /\ outLine' = NoLine
    /\ UNCHANGED <<mainPc, spawnError, startOutcome, exitCode, child, hostPipe,
                   hostClosed, childOutPipe, childErrPipe, childSent, inPc, inLine,
                   errPc, hostRead, childStdin, childRead, messages, inFaults,
                   outFaults>>

(***************************************************************************)
(* _monitor_stderr                                                         *)
(***************************************************************************)
\* Each stderr line is logged at WARNING or ERROR level.
ErrRead ==
    /\ UNCHANGED notProxyVars
    /\ UNCHANGED hostReadAtExit
    /\ mainPc = "running"
    /\ errPc = "read"
    /\ \/ /\ childErrPipe # <<>>
          /\ childErrPipe' = Tail(childErrPipe)
          /\ proxyStdout' = LogToStdout(proxyStdout, <<LogLine>>)
          /\ UNCHANGED errPc
       \/ /\ childErrPipe = <<>>
          /\ child = "exited"
          /\ errPc' = "eof"
          /\ UNCHANGED <<childErrPipe, proxyStdout>>
    /\ UNCHANGED <<mainPc, spawnError, startOutcome, exitCode, child, hostPipe,
                   hostClosed, childOutPipe, childSent, inPc, inLine, outPc,
                   outLine, hostRead, childStdin, childRead, messages, inFaults,
                   outFaults>>

\* The steps the proxy takes on its own (no host or child action).
ProxyStep ==
    \/ Start \/ Poll \/ GatherDone \/ MainExit
    \/ InRead \/ InCapture \/ InWrite
    \/ OutRead \/ OutCapture \/ OutWrite
    \/ ErrRead

ProxyInit ==
    /\ mainPc = "idle"
    /\ spawnError = FALSE
    /\ startOutcome = "none"
    /\ exitCode = NoExit
    /\ child = "none"
    /\ hostReadAtExit = {}
    /\ hostPipe = <<>>
    /\ hostClosed = FALSE
    /\ childOutPipe = <<>>
    /\ childErrPipe = <<>>
    /\ childSent = 0
    /\ inPc = "idle" /\ inLine = NoLine
    /\ outPc = "idle" /\ outLine = NoLine
    /\ errPc = "idle"
    /\ hostRead = <<>>
    /\ childStdin = <<>>
    /\ childRead = <<>>
    /\ proxyStdout = <<>>
    /\ messages = <<>>
    /\ inFaults = 0
    /\ outFaults = 0

NoOp == [op |-> "none", server |-> "none", via |-> "none", ok |-> FALSE,
         found |-> FALSE]

CfgIdle ==
    /\ projFile = {}
    /\ homeFile = {}
    /\ original_config = {}
    /\ pythonEnv = "python3"
    /\ lastOp = NoOp
    /\ prevOp = NoOp
    /\ filesBeforeLast = <<{}, {}>>
    /\ filesBeforePrev = <<{}, {}>>
    /\ opCount = 0

UnwrapIdle ==
    /\ uOriginal = [command |-> "none", args |-> <<>>]
    /\ uEntry = [command |-> "none", args |-> <<>>]
    /\ uDepth = 0
    /\ uResult = {}

ProxyIdle ==
    /\ mainPc = "off"
    /\ spawnError = FALSE
    /\ startOutcome = "none"
    /\ exitCode = NoExit
    /\ child = "none"
    /\ hostReadAtExit = {}
    /\ hostPipe = <<>>
    /\ hostClosed = FALSE
    /\ childOutPipe = <<>>
    /\ childErrPipe = <<>>
    /\ childSent = 0
    /\ inPc = "idle" /\ inLine = NoLine
    /\ outPc = "idle" /\ outLine = NoLine
    /\ errPc = "idle"
    /\ hostRead = <<>>
    /\ childStdin = <<>>
    /\ childRead = <<>>
    /\ proxyStdout = <<>>
    /\ messages = <<>>
    /\ inFaults = 0
    /\ outFaults = 0

\* The event-store files (all under ~/.cursor/).
StoreFileNames == {"mcp_audit_messages", "llm_decision_trace", "conversation_context"}

StoreIdle ==
    /\ storeFiles = [f \in StoreFileNames |-> <<>>]
    /\ storeWrites = 0

ReadIdle ==
    /\ rFile = <<>>
    /\ rResult = {}

FlowIdle ==
    /\ tlMessages = <<>>
    /\ tlDecisions = <<>>
    /\ tlEvents = {}
    /\ tlFlows = {}
    /\ tlAnalysis = {}
    /\ scInteraction = {}
    /\ scLoad = {}

RerunIdle ==
    /\ rrMessages = <<>>
    /\ rrDecisions = <<>>
    /\ rrSeeds = <<>>
    /\ rrOutputs = <<>>

ExportIdle ==
    /\ exTracerProvider = {}
    /\ exMeterProvider = {}
    /\ exTracerSetups = 0
    /\ exMeterSetups = 0
    /\ exManagers = 0
    /\ exLoops = EmptyBag
    /\ exLast = [ran |-> FALSE, calls |-> 0, accepted |-> 0, logs |-> {}, errors |-> {},
                 escaped |-> FALSE, after_failure |-> FALSE, after_stop |-> FALSE,
                 pc_after |-> "scheduled"]

SessionIdle ==
    /\ seSessions = <<>>
    /\ seDecisions = 0
    /\ seLog = 0
    /\ seFrames = [list |-> 0, call |-> 0, init |-> 0, response |-> 0]
    /\ seLast = [frame |-> "none", open_before |-> 0, closed |-> 0, success |-> {}]

IdentIdle ==
    /\ fiWindow = 30
    /\ fiZone = "utc"
    /\ fiTimes = <<>>
    /\ fiIds = {}

PairIdle ==
    /\ paNow = 0
    /\ paSent = 0
    /\ paOutstanding = {}
    /\ paSessions = <<>>
    /\ paActive = {}
    /\ paLog = <<>>

CountIdle ==
    /\ ctCaptured = 0
    /\ ctCounted = {}
    /\ ctPc = "off"

Init == ProxyInit /\ CfgIdle /\ UnwrapIdle /\ StoreIdle /\ ReadIdle /\ FlowIdle /\ RerunIdle /\ ExportIdle /\ SessionIdle /\ IdentIdle /\ PairIdle /\ CountIdle

Next ==
    \/ Start \/ Poll \/ GatherDone \/ MainExit
    \/ HostSend \/ HostEOF
    \/ ChildEmit \/ ChildErr \/ ChildExit
    \/ InRead \/ InCapture \/ InWrite
    \/ OutRead \/ OutCapture \/ OutWrite
    \/ ErrRead

Spec == Init /\ [][Next]_vars

(***************************************************************************)
(* Properties of the stdio proxy                                           *)
(***************************************************************************)
AllButLast(s) == SubSeq(s, 1, Len(s) - 1)

\* What the out-path has written to fd 1: stdout without the log records.
Forwarded == SelectSeq(proxyStdout, LAMBDA x : x # LogLine)

\* The server-to-host events of the message stream, as their payload lines.
OutEventPayloads ==
    LET ev == SelectSeq(messages, LAMBDA e : e.direction = MCP_CLIENT_TO_SERVER)
    IN  [i \in 1..Len(ev) |-> ev[i].payload]

\* The lines read from the child whose capture has completed / that are due
\* on stdout.
OutCaptured == IF outPc = "capture" THEN AllButLast(childRead) ELSE childRead
OutDue == IF outPc \in {"capture", "write", "error"} THEN AllButLast(childRead) ELSE childRead

\* C1: the lines written to the child's stdin are always a prefix of the lines
\* read from the host, the lines written to the proxy's stdout are always a
\* prefix of the lines read from the child's stdout, and on each path the two
\* sequences are equal once the path has read end-of-stream.
C1_Transparency ==
    /\ IsPrefix(childStdin, hostRead)
    /\ IsPrefix(proxyStdout, childRead)
    /\ (inPc = "eof" => childStdin = hostRead)
    /\ (outPc = "eof" => proxyStdout = childRead)

C3_ForwardDoesNotWaitForCapture ==
    (mainPc = "running" /\ inPc \in {"capture", "write"}) => ENABLED InWrite

\* C4: once the child has exited and its output is forwarded (the out-path and
\* the err-path have ended), the proxy has terminated or can take a step
\* towards termination on its own, without a line or end-of-file from the host.
C4_TerminatesAfterChildExit ==
    (mainPc = "running" /\ child = "exited" /\ outPc = "eof" /\ errPc = "eof")
        => ENABLED ProxyStep

\* C5: if the child cannot be spawned or exits within the 100 ms sleep,
\* start_proxy_server does not return normally and the process exits non-zero.
C5_SpawnFailureSurfaced ==
    /\ ((spawnError /\ mainPc \in {"returned", "exited"}) => startOutcome = "raised")
    /\ ((spawnError /\ mainPc = "exited") => exitCode # 0)

\* C6: every line of the child, a non-JSON one included, is forwarded to the
\* host unchanged and in order; and, as long as no capture fault was injected
\* on the out-path, the server-to-host events are exactly the JSON-object
\* lines captured so far, one event each, in order: no event for a non-JSON
\* line and nothing of it in the event of the line after it.
C6_NoiseForwardedNotCaptured ==
    /\ Forwarded = OutDue
    /\ (outFaults = 0 =>
            OutEventPayloads = SelectSeq(OutCaptured, LAMBDA l : IsObjectPayload(l)))

\* The child emitted a non-JSON line and then a response; both were forwarded
\* and the stream holds one server-to-host event, the response.
C6_Witness ==
    /\ childRead = <<NoiseLine, ResultLine>>
    /\ outPc = "read"
    /\ outFaults = 0
    /\ Forwarded = <<NoiseLine, ResultLine>>
    /\ OutEventPayloads = <<ResultLine>>

LineId(line) == IF line \in {CallLine, ResultLine} THEN {1} ELSE {}

\* A request carries a method, a response a result.
IsRequest(line) == line = CallLine
IsResponse(line) == line = ResultLine

\* The capture timestamp of the i-th event of the stream, in milliseconds of
\* a logical clock: the timestamp is taken when the trace is built and the
\* append follows in the same uninterrupted step, so timestamps grow along
\* the stream.
CaptureTime(i) == i

\* C17: for every request event with id x and every response event with the
\* same id captured later on the opposite path, the latency_ms recorded on
\* the response is the difference of the two capture timestamps.
C17_LatencyIsTimestampDelta ==
    \A i, j \in 1..Len(messages) :
        (/\ i < j
         /\ IsRequest(messages[i].payload) /\ IsResponse(messages[j].payload)
         /\ LineId(messages[i].payload) = LineId(messages[j].payload)
         /\ messages[i].direction # messages[j].direction)
            => messages[j].latency_ms = {CaptureTime(j) - CaptureTime(i)}

(***************************************************************************)
(* Config rewriter: MCPProxyManager and the `proxy` CLI command            *)
(***************************************************************************)
MaxOps == 3

Runner == "mcp_audit.interceptors.mcp_proxy_runner"
Cwd == "/proj"                          \* str(Path.cwd())
VenvPython == "/proj/.venv/bin/python"  \* str(Path.cwd() / ".venv" / "bin" / "python")
Absent == "absent"                      \* a key the entry does not have

\* str.endswith on the commands of the model.
EndsWith(command, suffix) ==
    <<command, suffix>> \in {<<VenvPython, "/bin/python">>,
                             <<"/usr/bin/python3", "/bin/python3">>}

\* The real server entries a config may hold.
NodeEntry == [command |-> "node", args |-> <<"server.js">>, cwd |-> Absent,
              env |-> {<<"API_KEY", "k1">>}]
PyEntry == [command |-> "python", args |-> <<"server.py", "--port">>, cwd |-> "/srv",
            env |-> {}]
BrowserEntry == [command |-> "npx", args |-> <<"browser-mcp">>, cwd |-> Absent,
                 env |-> {}]
InitialConfigs ==
    {[mcpServers |-> [mastra |-> e, browser |-> BrowserEntry]] : e \in {NodeEntry, PyEntry}}

\* The server names install is called with; "ghost" has no entry.
InstallServers == {"mastra", "ghost"}
PythonEnvs == {"venv", "python3", "python", "neither"}

\* _create_proxy_config: the interpreter written into the entry.
PythonCmd(env) ==
    CASE env = "venv" -> VenvPython
      [] env = "python3" -> "python3"
      [] env = "python" -> "python"
      [] OTHER -> "python3"

\* _create_proxy_config: the flattened proxy args.
ProxyArgs(command, args) ==
    <<"-m", Runner, "--target-command", command, "--target-args">> \o args

\* _create_proxy_config: the entry that replaces the original one.
ProxyEntry(entry, server_name, env) ==
    LET original_cwd == IF entry.cwd = Absent THEN Cwd ELSE entry.cwd
    IN  [command |-> PythonCmd(env),
         args |-> ProxyArgs(entry.command, entry.args),
         cwd |-> original_cwd,
         env |-> {<<"MCP_TARGET_CWD", original_cwd>>, <<"MCP_SERVER_NAME", server_name>>}]

is_already_proxied(server_config) ==
    LET args == server_config.args
        command == server_config.command
        is_python_command ==
            \/ command = "python"
            \/ EndsWith(command, "/bin/python")
            \/ EndsWith(command, "/bin/python3")
    IN  /\ is_python_command
        /\ Len(args) > 0
        /\ args[1] = "-m"
        /\ Len(args) > 1
        /\ args[2] = Runner

\* _create_proxy_config: the config it returns.
create_proxy_config(config, server_name, env) ==
    IF server_name \in DOMAIN config.mcpServers
    THEN IF is_already_proxied(config.mcpServers[server_name])
         THEN config
         ELSE [config EXCEPT !.mcpServers[server_name] =
                                 ProxyEntry(config.mcpServers[server_name], server_name, env)]
    ELSE config

\* self.original_config once _create_proxy_config has run: the copy() it
\* takes is shallow, so original_config and proxy_config hold the same
\* mcpServers dict and the assignment into it shows through both.
original_config_after_create(loaded, proxy_config) ==
    [loaded EXCEPT !.mcpServers = proxy_config.mcpServers]

\* setup_proxy_for_server: project-level file first, then the global one.
SetupPath ==
    IF projFile # {} THEN "proj" ELSE IF homeFile # {} THEN "home" ELSE "none"

\* restore_original_config: global file first, else the project-level path.
RestorePath == IF homeFile # {} THEN "home" ELSE "proj"

FileAt(path) == IF path = "proj" THEN projFile ELSE homeFile
Content(file) == CHOOSE c \in file : TRUE

\* The effect of setup_proxy_for_server(server_name) of a manager:
\* the files, the manager's original_config and the value returned.
SetupEffect(server_name) ==
    IF SetupPath = "none"
    THEN [proj |-> projFile, home |-> homeFile, original |-> {}, loaded |-> FALSE,
          ok |-> FALSE, found |-> FALSE]
    ELSE LET loaded == Content(FileAt(SetupPath))
             proxy_config == create_proxy_config(loaded, server_name, pythonEnv)
         IN  [proj |-> IF SetupPath = "proj" THEN {proxy_config} ELSE projFile,
              home |-> IF SetupPath = "home" THEN {proxy_config} ELSE homeFile,
              original |-> {original_config_after_create(loaded, proxy_config)},
              loaded |-> TRUE,
              ok |-> TRUE,
              found |-> server_name \in DOMAIN loaded.mcpServers]

Record(op) ==
    /\ lastOp' = op
    /\ prevOp' = lastOp
    /\ filesBeforeLast' = <<projFile, homeFile>>
    /\ filesBeforePrev' = filesBeforeLast
    /\ opCount' = opCount + 1

\* setup_proxy_for_server on the long-lived manager.
ManagerSetup ==
    /\ UNCHANGED notCfgVars
    /\ opCount < MaxOps
    /\ \E server_name \in InstallServers :
         LET r == SetupEffect(server_name)
         IN  /\ projFile' = r.proj
             /\ homeFile' = r.home
             /\ original_config' = IF r.loaded THEN r.original ELSE original_config
             /\ Record([op |-> "install", server |-> server_name, via |-> "manager",
                        ok |-> r.ok, found |-> r.found])
    /\ UNCHANGED pythonEnv

\* restore_original_config on the long-lived manager.
ManagerRestore ==
    /\ UNCHANGED notCfgVars
    /\ opCount < MaxOps
    /\ IF original_config = {}
       THEN UNCHANGED <<projFile, homeFile>>
       ELSE /\ projFile' = IF RestorePath = "proj" THEN original_config ELSE projFile
            /\ homeFile' = IF RestorePath = "home" THEN original_config ELSE homeFile
    /\ Record([op |-> "restore", server |-> "none", via |-> "manager", ok |-> TRUE,
               found |-> FALSE])
    /\ UNCHANGED <<original_config, pythonEnv>>

\* `mcp-audit proxy --server <name>`: _proxy_command builds a new
\* MCPProxyManager and calls setup_proxy_for_server; the manager ends with
\* the process.
CliProxy ==
    /\ UNCHANGED notCfgVars
    /\ opCount < MaxOps
    /\ \E server_name \in InstallServers :
         LET r == SetupEffect(server_name)
         IN  /\ projFile' = r.proj
             /\ homeFile' = r.home
             /\ Record([op |-> "install", server |-> server_name, via |-> "cli",
                        ok |-> r.ok, found |-> r.found])
    /\ UNCHANGED <<original_config, pythonEnv>>

\* `mcp-audit proxy --restore`: a new MCPProxyManager has original_config =
\* None, so restore_original_config returns at once; the command then
\* reports the configuration restored.
CliRestore ==
    /\ UNCHANGED notCfgVars
    /\ opCount < MaxOps
    /\ UNCHANGED <<projFile, homeFile>>
    /\ Record([op |-> "restore", server |-> "none", via |-> "cli", ok |-> TRUE,
               found |-> FALSE])
    /\ UNCHANGED <<original_config, pythonEnv>>

CfgInit ==
    /\ projFile \in {{}} \cup {{c} : c \in InitialConfigs}
    /\ homeFile \in {{}} \cup {{c} : c \in InitialConfigs}
    /\ original_config = {}
    /\ pythonEnv \in PythonEnvs
    /\ lastOp = NoOp
    /\ prevOp = NoOp
    /\ filesBeforeLast = <<{}, {}>>
    /\ filesBeforePrev = <<{}, {}>>
    /\ opCount = 0

CfgNext == ManagerSetup \/ ManagerRestore \/ CliProxy \/ CliRestore

CfgSpecInit == CfgInit /\ ProxyIdle /\ UnwrapIdle /\ StoreIdle /\ ReadIdle /\ FlowIdle /\ RerunIdle /\ ExportIdle /\ SessionIdle /\ IdentIdle /\ PairIdle /\ CountIdle

CfgSpec == CfgSpecInit /\ [][CfgNext]_vars

\* C7: install of the same server twice in a row, the first having rewritten
\* an existing entry: the second call leaves the config files as the first
\* left them and reports failure (already_proxied), not success.
C7_InstallTwiceIdempotent ==
    (/\ lastOp.op = "install" /\ prevOp.op = "install"
     /\ lastOp.server = prevOp.server
     /\ prevOp.found /\ prevOp.ok)
        => (<<projFile, homeFile>> = filesBeforeLast /\ ~lastOp.ok)

\* C8: install of an existing server followed by restore (on the same manager
\* or through the CLI) leaves the config files as they were before install.
C8_InstallRestoreRoundTrip ==
    (/\ lastOp.op = "restore" /\ prevOp.op = "install"
     /\ lastOp.via = prevOp.via
     /\ prevOp.found /\ prevOp.ok)
        => <<projFile, homeFile>> = filesBeforePrev

\* C9: install for a name with no entry in the config's mcpServers reports
\* failure (not_found), not success, and leaves the config files unchanged.
C9_InstallUnknownServerFails ==
    (/\ lastOp.op = "install"
     /\ filesBeforeLast # <<{}, {}>>
     /\ ~lastOp.found)
        => (~lastOp.ok /\ <<projFile, homeFile>> = filesBeforeLast)

\* What install(server_name) may do to a config file: nothing to the entry of
\* any other server, and nothing removed from the env of the named entry.
InstallFrame(before, after, server_name) ==
    /\ (before = {}) <=> (after = {})
    /\ \A b \in before, c \in after :
          /\ DOMAIN c.mcpServers = DOMAIN b.mcpServers
          /\ \A name \in DOMAIN b.mcpServers \ {server_name} :
                c.mcpServers[name] = b.mcpServers[name]
          /\ server_name \in DOMAIN b.mcpServers =>
                b.mcpServers[server_name].env \subseteq c.mcpServers[server_name].env

\* C38: install(server_name) changes only how the named server is launched:
\* every other server's entry is unchanged, and every environment variable
\* present in the named entry's original env is still present with the same
\* value in the rewritten entry.
C38_InstallKeepsOthersAndEnv ==
    lastOp.op = "install" =>
        /\ InstallFrame(filesBeforeLast[1], projFile, lastOp.server)
        /\ InstallFrame(filesBeforeLast[2], homeFile, lastOp.server)

\* The part of it about the other servers.
InstallKeepsOtherServers ==
    lastOp.op = "install" =>
        \A pair \in {<<filesBeforeLast[1], projFile>>, <<filesBeforeLast[2], homeFile>>} :
            \A b \in pair[1], c \in pair[2] :
                \A name \in DOMAIN b.mcpServers \ {lastOp.server} :
                    c.mcpServers[name] = b.mcpServers[name]

(***************************************************************************)
(* Recursion fixer: fix_recursive_config.py                                *)
(***************************************************************************)
MaxDepth == 3

None == "None"
NoneArgs == <<"None">>   \* original_args = None

\* list.index(x): the first position of x, 0 when x is not in the list
\* (ValueError).
IndexOf(seq, x) ==
    IF \E i \in 1..Len(seq) : seq[i] = x
    THEN CHOOSE i \in 1..Len(seq) : seq[i] = x /\ \A j \in 1..(i - 1) : seq[j] # x
    ELSE 0

\* extract_original_from_proxy_args, from the loop test on: `depth` layers
\* have been counted and current_args is what is left to unwrap.
RECURSIVE ExtractLoop(_, _)
ExtractLoop(current_args, depth) ==
    IF Len(current_args) >= 2 /\ current_args[1] = "-m" /\ current_args[2] = Runner
    THEN LET target_cmd_idx == IndexOf(current_args, "--target-command")
             target_args_idx == IndexOf(current_args, "--target-args")
         IN  IF \/ target_cmd_idx = 0
                \/ target_args_idx = 0
                \/ target_cmd_idx + 1 > Len(current_args)
             THEN [command |-> None, args |-> NoneArgs, depth |-> depth + 1]
             ELSE LET original_command == current_args[target_cmd_idx + 1]
                      original_args ==
                          SubSeq(current_args, target_args_idx + 1, Len(current_args))
                  IN  IF original_command = "python" /\ Len(original_args) >= 2
                      THEN ExtractLoop(original_args, depth + 1)
                      ELSE [command |-> original_command, args |-> original_args,
                            depth |-> depth + 1]
    ELSE [command |-> IF current_args # <<>> THEN current_args[1] ELSE None,
          args |-> IF Len(current_args) > 1 THEN Tail(current_args) ELSE <<>>,
          depth |-> depth]

extract_original_from_proxy_args(args) == ExtractLoop(args, 0)

\* detect_recursive_config: the test that an entry is a proxy configuration.
IsProxyConfiguration(server_config) ==
    /\ server_config.command = "python"
    /\ Len(server_config.args) >= 2
    /\ server_config.args[1] = "-m"
    /\ server_config.args[2] = Runner

\* detect_recursive_config on a config whose mcpServers holds the one entry
\* server_name -> server_config.
detect_recursive_config(server_name, server_config) ==
    IF IsProxyConfiguration(server_config)
    THEN LET x == extract_original_from_proxy_args(server_config.args)
         IN  [is_recursive |-> TRUE,
              recursion_depth |-> x.depth,
              original_command |-> x.command,
              original_args |-> x.args,
              server_name |-> server_name]
    ELSE [is_recursive |-> FALSE,
          recursion_depth |-> 0,
          original_command |-> None,
          original_args |-> NoneArgs,
          server_name |-> None]

\* The real servers that get wrapped and the interpreters a layer may use.
UnwrapCommands == {"node", "python", "python3"}
UnwrapArgs == {<<>>, <<"server.js">>, <<"server.py", "--port">>}
LayerInterpreters == {"python", "python3", VenvPython}

\* One more proxy layer around the entry, written the way
\* _create_proxy_config writes it, with interpreter `py`.
WrapLayer ==
    /\ UNCHANGED notUnwrapVars
    /\ uResult = {}
    /\ uDepth < MaxDepth
    /\ \E py \in LayerInterpreters :
         uEntry' = [command |-> py, args |-> ProxyArgs(uEntry.command, uEntry.args)]
    /\ uDepth' = uDepth + 1
    /\ UNCHANGED <<uOriginal, uResult>>

\* The fixer's main(): detect_recursive_config on the loaded config.
Detect ==
    /\ UNCHANGED notUnwrapVars
    /\ uResult = {}
    /\ uDepth >= 1
    /\ uResult' = {detect_recursive_config("mastra", uEntry)}
    /\ UNCHANGED <<uOriginal, uEntry, uDepth>>

UnwrapInit ==
    /\ uOriginal \in [command : UnwrapCommands, args : UnwrapArgs]
    /\ uEntry = uOriginal
    /\ uDepth = 0
    /\ uResult = {}

UnwrapSpecInit == UnwrapInit /\ ProxyIdle /\ CfgIdle /\ StoreIdle /\ ReadIdle /\ FlowIdle /\ RerunIdle /\ ExportIdle /\ SessionIdle /\ IdentIdle /\ PairIdle /\ CountIdle

UnwrapNext == WrapLayer \/ Detect

UnwrapSpec == UnwrapSpecInit /\ [][UnwrapNext]_vars

\* C37: the installer's recursion guard (_is_already_proxied) and the
\* recursion fixer's detector (detect_recursive_config) classify every server
\* entry identically, including every entry the installer itself can write
\* (interpreter given as a .venv/bin/python path, python3, or python).
C37_GuardAndDetectorAgree ==
    is_already_proxied(uEntry) <=> detect_recursive_config("mastra", uEntry).is_recursive

\* C10: for an entry wrapped uDepth >= 1 times, the fixer returns the command
\* and the args of the innermost real server and reports depth uDepth.
C10_UnwrapReturnsOriginal ==
    \A r \in uResult :
        /\ r.original_command = uOriginal.command
        /\ r.original_args = uOriginal.args
        /\ r.recursion_depth = uDepth

(***************************************************************************)
(* Event store writers: the message callback and the prompt writer of the *)
(* runner, LLMDecisionInterceptor._persist_decision and                    *)
(* ConversationContextInterceptor._persist_context                         *)
(***************************************************************************)
MaxWrites == 4

\* open(path, mode) of an existing or new file: what the file holds once it
\* is open for writing.
OpenFile(content, mode) == IF mode = "a" THEN content ELSE <<>>

\* f.write(json.dumps(record) + '\n')
WriteLine(content, line) == Append(content, line)

\* The mode each writer opens its file with.
MessageOpenMode == "a"
PromptOpenMode == "a"
DecisionOpenMode_Truncate == "w"
DecisionOpenMode == "a"
ContextOpenMode == "a"

\* The processes that write to the event store: one proxy process per wrapped
\* server, and a process that logs user prompts with UserPromptCapture.
ProxyProcesses == {"proxy_A", "proxy_B"}
PromptLogger == "prompt_logger"

\* One write of a record of `kind` to `file` by the process `writer`: each
\* writer wraps the mkdir/open/write in try/except, so a failing write leaves
\* the file as it was.  Every process resolves the same path under
\* Path.home()/.cursor.  A line is identified by its kind, by the process
\* that wrote it and by the write that produced it.
StoreWrite(file, kind, mode, writer) ==
    /\ storeWrites < MaxWrites
    /\ \E ok \in BOOLEAN :
         storeFiles' =
             IF ok
             THEN [storeFiles EXCEPT ![file] =
                      WriteLine(OpenFile(@, mode),
                                [kind |-> kind, n |-> storeWrites, writer |-> writer])]
             ELSE storeFiles
    /\ storeWrites' = storeWrites + 1

\* enhanced_audit_message_callback, run by the proxy process of each server
WriteMessage ==
    /\ UNCHANGED notStoreVars
    /\ \E proc \in ProxyProcesses :
         StoreWrite("mcp_audit_messages", "message", MessageOpenMode, proc)

\* write_user_prompt_to_audit
WriteUserPrompt ==
    /\ UNCHANGED notStoreVars
    /\ \E proc \in ProxyProcesses :
         StoreWrite("mcp_audit_messages", "prompt", PromptOpenMode, proc)

\* UserPromptCapture.capture_user_prompt: open(self.messages_file, 'a')
CaptureUserPrompt ==
    /\ UNCHANGED notStoreVars
    /\ StoreWrite("mcp_audit_messages", "prompt", "a", PromptLogger)

\* LLMDecisionInterceptor._persist_decision
PersistDecision ==
    /\ UNCHANGED notStoreVars
    /\ \E proc \in ProxyProcesses :
         StoreWrite("llm_decision_trace", "decision", DecisionOpenMode, proc)

\* ConversationContextInterceptor._persist_context
PersistContext ==
    /\ UNCHANGED notStoreVars
    /\ \E proc \in ProxyProcesses :
         StoreWrite("conversation_context", "context", ContextOpenMode, proc)

StoreInit == StoreIdle

StoreSpecInit == StoreInit /\ ProxyIdle /\ CfgIdle /\ UnwrapIdle /\ ReadIdle /\ FlowIdle /\ RerunIdle /\ ExportIdle /\ SessionIdle /\ IdentIdle /\ PairIdle /\ CountIdle

StoreNext ==
    \/ WriteMessage \/ WriteUserPrompt \/ CaptureUserPrompt
    \/ PersistDecision \/ PersistContext

StoreSpec == StoreSpecInit /\ [][StoreNext]_vars

\* C11: every write to an event-store file only appends: the lines the file
\* held before the write are all still there after it, identical and in the
\* same order (the old content is a prefix of the new content).
C11_AppendOnly ==
    [][\A f \in StoreFileNames : IsPrefix(storeFiles[f], storeFiles'[f])]_vars

\* Message, prompt and decision writes have happened: the messages file holds
\* a message and a prompt written after it, the decisions file two decisions.
C11_Witness ==
    /\ Len(storeFiles["mcp_audit_messages"]) >= 2
    /\ storeFiles["mcp_audit_messages"][1].kind = "message"
    /\ storeFiles["mcp_audit_messages"][2].kind = "prompt"
    /\ Len(storeFiles["llm_decision_trace"]) >= 2

\* The processes that have written a line of the file.
WritersOf(file) == {storeFiles[file][i].writer : i \in 1..Len(storeFiles[file])}

\* C29: each event-store stream file has a single writer: no two processes
\* (two proxy instances wrapping different servers, or a proxy and a
\* user-prompt logger) ever append to the same stream file.
C29_SingleWriterPerStream ==
    \A file \in StoreFileNames : Cardinality(WritersOf(file)) <= 1

(***************************************************************************)
(* Event stream reader: TimelineAnalyzer.load_messages and                 *)
(* load_llm_decisions                                                      *)
(***************************************************************************)
MaxFileLines == 3

\* utcnow() - timedelta(hours=since_hours), on the time scale of the model.
Cutoff == 2

\* The lines a stream file may hold.  A well-formed record carries a naive
\* ISO timestamp ts; the other kinds are the invalid lines:
\*   "truncated"     a partial line, cut inside the JSON object
\*   "notjson"       not JSON at all
\*   "array"         valid JSON that is not an object
\*   "no_timestamp"  an object without a "timestamp" key
\*   "bad_timestamp" an object whose timestamp string fromisoformat rejects
\*   "zoned"         an object whose timestamp ends in Z (an aware datetime)
RecordLines == {[kind |-> "record", ts |-> t] : t \in 1..3}
InvalidKinds == {"truncated", "notjson", "array", "no_timestamp", "bad_timestamp", "zoned"}
InvalidLines == {[kind |-> k, ts |-> 2] : k \in InvalidKinds}
FileLines == RecordLines \cup InvalidLines

\* The exception the loop body raises on a line, "none" when it raises none:
\* json.loads, message['timestamp'], fromisoformat, timestamp < cutoff_time.
LineException(line, since) ==
    CASE line.kind \in {"truncated", "notjson"} -> "JSONDecodeError"
      [] line.kind = "array" -> "TypeError"
      [] line.kind = "no_timestamp" -> "KeyError"
      [] line.kind = "bad_timestamp" -> "ValueError"
      [] line.kind = "zoned" /\ since = "window" -> "TypeError"
      [] OTHER -> "none"

\* except (json.JSONDecodeError, KeyError, ValueError) and nothing else.
InnerExceptCatches(exc) == exc \in {"JSONDecodeError", "KeyError", "ValueError"}

\* The loop over the lines: the records appended, and whether an exception
\* left the loop.
RECURSIVE LoadLoop(_, _)
LoadLoop(lines, since) ==
    IF lines = <<>> THEN [raised |-> FALSE, records |-> <<>>]
    ELSE LET line == Head(lines)
             exc == LineException(line, since)
         IN  IF exc # "none"
             THEN IF InnerExceptCatches(exc)
                  THEN LoadLoop(Tail(lines), since)
                  ELSE [raised |-> TRUE, records |-> <<>>]
             ELSE LET rest == LoadLoop(Tail(lines), since)
                  IN  IF since = "window" /\ line.ts < Cutoff
                      THEN rest
                      ELSE [raised |-> rest.raised,
                            records |-> IF rest.raised THEN <<>> ELSE <<line>> \o rest.records]

\* list.sort(key=parsed_timestamp): stable, by insertion.
RECURSIVE InsertByTime(_, _)
InsertByTime(sorted, x) ==
    IF sorted = <<>> THEN <<x>>
    ELSE IF x.ts < sorted[Len(sorted)].ts
         THEN Append(InsertByTime(SubSeq(sorted, 1, Len(sorted) - 1), x), sorted[Len(sorted)])
         ELSE Append(sorted, x)

RECURSIVE SortByTime(_)
SortByTime(seq) ==
    IF seq = <<>> THEN <<>>
    ELSE InsertByTime(SortByTime(SubSeq(seq, 1, Len(seq) - 1)), seq[Len(seq)])

\* Comparing an aware with a naive datetime raises TypeError: the sort
\* raises when the list holds both.
SortRaises(records) ==
    /\ \E i \in 1..Len(records) : records[i].kind = "zoned"
    /\ \E i \in 1..Len(records) : records[i].kind # "zoned"

\* load_messages / load_llm_decisions on a file holding `lines`: the outer
\* `except Exception` turns any exception into an empty result.
LoadStream(lines, since) ==
    LET loop == LoadLoop(lines, since)
    IN  IF loop.raised \/ SortRaises(loop.records)
        THEN <<>>
        ELSE SortByTime(loop.records)

Sinces == {"none", "window"}

LoadMessages ==
    /\ UNCHANGED notReadVars
    /\ rResult = {}
    /\ \E since \in Sinces :
         rResult' = {[source |-> "mcp_audit", since |-> since,
                      records |-> LoadStream(rFile, since)]}
    /\ UNCHANGED rFile

LoadLlmDecisions ==
    /\ UNCHANGED notReadVars
    /\ rResult = {}
    /\ \E since \in Sinces :
         rResult' = {[source |-> "llm_decision", since |-> since,
                      records |-> LoadStream(rFile, since)]}
    /\ UNCHANGED rFile

RECURSIVE SeqsUpTo(_, _)
SeqsUpTo(S, n) ==
    IF n = 0 THEN {<<>>}
    ELSE LET shorter == SeqsUpTo(S, n - 1)
         IN  shorter \cup {Append(q, x) : q \in shorter, x \in S}

ReadInit ==
    /\ rFile \in SeqsUpTo(FileLines, MaxFileLines)
    /\ rResult = {}

ReadSpecInit == ReadInit /\ ProxyIdle /\ CfgIdle /\ UnwrapIdle /\ StoreIdle /\ FlowIdle /\ RerunIdle /\ ExportIdle /\ SessionIdle /\ IdentIdle /\ PairIdle /\ CountIdle

ReadNext == LoadMessages \/ LoadLlmDecisions

ReadSpec == ReadSpecInit /\ [][ReadNext]_vars

\* The well-formed records of the file inside the since window, by time.
WellFormedInWindow(lines, since) ==
    SortByTime(SelectSeq(lines, LAMBDA l :
        l.kind = "record" /\ (since = "window" => l.ts >= Cutoff)))

\* C13: a load returns every well-formed record of the file inside the since
\* window and nothing else: each invalid line (truncated, not JSON, JSON but
\* not an object, without timestamp, with an unparseable or zoned timestamp)
\* is skipped on its own and costs no other record.
C13_ReaderSkipsInvalidLinesOnly ==
    \A r \in rResult : r.records = WellFormedInWindow(rFile, r.since)
(***************************************************************************)
(* The timeline correlator (tracing/timeline_analyzer.py): the loaded      *)
(* message and decision streams are merged by timestamp and cut into       *)
(* flows.  Times are whole seconds.                                        *)
(***************************************************************************)
MaxEvents == 3

SERVER_TO_API == "server->api"
NoDirection == ""                 \* event.get('direction', '') of a decision

\* TimelineAnalyzer(time_window_seconds=30)
time_window_seconds == 30

\* One loaded event, reduced to the keys the correlator reads.  A key the
\* JSON object does not have is {}: server_name, payload.method, payload.id,
\* payload.error, enhanced_context.tool_name, the prompt text
\* (payload.content of a message, user_prompt of a decision) and success.
\* result is "payload.result is not None".
Event(source, server, direction, method, id, result, error, tool, prompt, ok) ==
    [source |-> source, ts |-> 0, server_name |-> server,
     direction |-> direction, method |-> method, id |-> id, result |-> result,
     error |-> error, tool_name |-> tool, prompt |-> prompt, success |-> ok]

\* tools/call of tool "t" on server A, its error answer, its result answer.
CallEvent ==
    Event("mcp_audit", {"A"}, LLM_TO_MCP_CLIENT, {"tools/call"}, {1}, FALSE, {},
          {"t"}, {}, {})
CallErrorEvent ==
    Event("mcp_audit", {"A"}, MCP_CLIENT_TO_SERVER, {}, {1}, FALSE, {"401"}, {},
          {}, {})
CallResultEvent ==
    Event("mcp_audit", {"A"}, MCP_CLIENT_TO_SERVER, {}, {1}, TRUE, {}, {}, {}, {})
\* A second tools/call of the same tool, and its result answer.
RetryEvent ==
    Event("mcp_audit", {"A"}, LLM_TO_MCP_CLIENT, {"tools/call"}, {3}, FALSE, {},
          {"t"}, {}, {})
RetryResultEvent ==
    Event("mcp_audit", {"A"}, MCP_CLIENT_TO_SERVER, {}, {3}, TRUE, {}, {}, {}, {})
\* tools/list on server B and its result answer.
ListEvent ==
    Event("mcp_audit", {"B"}, LLM_TO_MCP_CLIENT, {"tools/list"}, {2}, FALSE, {},
          {}, {}, {})
ListResultEvent ==
    Event("mcp_audit", {"B"}, MCP_CLIENT_TO_SERVER, {}, {2}, TRUE, {}, {}, {}, {})
\* A user prompt entry written by an external prompt logger: no server_name.
PromptEvent ==
    Event("mcp_audit", {}, USER_TO_LLM, {}, {}, FALSE, {}, {}, {"list files"}, {})
\* A user prompt entry whose payload.content is not a string.
NonStringPrompt == "<non-string content>"
BadPromptEvent ==
    Event("mcp_audit", {"A"}, USER_TO_LLM, {}, {}, FALSE, {}, {}, {NonStringPrompt},
          {})
\* An LLM decision record with the given success value.
DecisionEvent(success) ==
    Event("llm_decision", {}, NoDirection, {}, {}, FALSE, {}, {}, {}, {success})

CorrelatorShapes ==
    {CallEvent, CallErrorEvent, CallResultEvent, ListEvent, ListResultEvent,
     PromptEvent, DecisionEvent(TRUE), DecisionEvent(FALSE)}
\* Seconds between consecutive events: inside, exactly at, beyond the window.
CorrelatorGaps == {1, time_window_seconds, time_window_seconds + 1}

\* The time-ordered streams of at most n events of the given shapes.
RECURSIVE Timelines(_, _, _)
Timelines(shapes, gaps, n) ==
    IF n = 0 THEN {<<>>}
    ELSE LET shorter == Timelines(shapes, gaps, n - 1)
         IN  shorter \cup
             {Append(t, [s EXCEPT !.ts = IF t = <<>> THEN 0
                                         ELSE t[Len(t)].ts + g]) :
                t \in shorter, s \in shapes, g \in gaps}

IsMessage(e) == e.source = "mcp_audit"
IsDecision(e) == e.source = "llm_decision"

merge_timeline_data(msgs, decisions) == SortByTime(msgs \o decisions)

time_gap_seconds(event1, event2) == event2.ts - event1.ts

\* The loop's test for closing the current flow.
StartsNewFlow_AtWindow(current_flow, event) ==
    \/ current_flow = <<>>
    \/ time_gap_seconds(current_flow[Len(current_flow)], event) >= time_window_seconds

StartsNewFlow(current_flow, event) ==
    \/ current_flow = <<>>
    \/ time_gap_seconds(current_flow[Len(current_flow)], event) > time_window_seconds

\* event.get('server_name', 'unknown')
ServerNameOf(event) ==
    IF event.server_name = {} THEN "unknown"
    ELSE CHOOSE s \in event.server_name : TRUE

IsToolCall(event) ==
    event.direction = LLM_TO_MCP_CLIENT /\ event.method = {"tools/call"}

\* 'server' in event.get('direction', '')
DirectionNamesServer(direction) == direction \in {MCP_CLIENT_TO_SERVER, SERVER_TO_API}

determine_flow_success(flow_events) ==
    LET llm_success == \E i \in 1..Len(flow_events) :
                          /\ flow_events[i].source = "llm_decision"
                          /\ flow_events[i].success = {TRUE}
        has_tool_call == \E i \in 1..Len(flow_events) : IsToolCall(flow_events[i])
        has_response == \E i \in 1..Len(flow_events) :
                           /\ DirectionNamesServer(flow_events[i].direction)
                           /\ flow_events[i].result
    IN  llm_success \/ (has_tool_call /\ has_response)

\* The user prompt the flow summary keeps: that of the first event that
\* offers one (a decision with a non-empty user_prompt, a user->llm message).
RECURSIVE FlowUserPrompt(_)
FlowUserPrompt(flow_events) ==
    IF flow_events = <<>> THEN {}
    ELSE LET event == Head(flow_events)
         IN  IF /\ \/ event.source = "llm_decision"
                   \/ (event.source = "mcp_audit" /\ event.direction = USER_TO_LLM)
                /\ event.prompt # {}
             THEN event.prompt
             ELSE FlowUserPrompt(Tail(flow_events))

RECURSIVE FlowMcpCalls(_)
FlowMcpCalls(flow_events) ==
    IF flow_events = <<>> THEN <<>>
    ELSE LET event == Head(flow_events)
             rest == FlowMcpCalls(Tail(flow_events))
         IN  IF event.source = "mcp_audit" /\ event.direction # USER_TO_LLM
                /\ IsToolCall(event)
             THEN <<[server |-> ServerNameOf(event), tool |-> event.tool_name]>> \o rest
             ELSE rest

\* The flow summary; `events` are the events it was built from (its
\* 'timeline' key lists one projection per event, in order).
create_flow_summary(flow_events) ==
    LET servers_involved ==
            {ServerNameOf(flow_events[i]) :
                i \in {j \in 1..Len(flow_events) : flow_events[j].source = "mcp_audit"}}
    IN  [events |-> flow_events,
         duration_ms |-> (flow_events[Len(flow_events)].ts - flow_events[1].ts) * 1000,
         event_count |-> Len(flow_events),
         servers_involved |-> servers_involved,
         cross_server_flow |-> Cardinality(servers_involved) > 1,
         user_prompt |-> FlowUserPrompt(flow_events),
         has_user_context |-> FlowUserPrompt(flow_events) # {},
         mcp_calls |-> FlowMcpCalls(flow_events),
         success |-> determine_flow_success(flow_events)]

RECURSIVE GroupLoop(_, _, _)
GroupLoop(events, flows, current_flow) ==
    LET finalized == IF current_flow # <<>>
                     THEN Append(flows, create_flow_summary(current_flow))
                     ELSE flows
    IN  IF events = <<>> THEN finalized
        ELSE IF StartsNewFlow(current_flow, Head(events))
             THEN GroupLoop(Tail(events), finalized, <<Head(events)>>)
             ELSE GroupLoop(Tail(events), flows, Append(current_flow, Head(events)))

\* The loop without the append that follows it ("Don't forget the last flow").
group_into_flows_DropsLastFlow(timeline_events) ==
    LET all == GroupLoop(timeline_events, <<>>, <<>>)
    IN  SubSeq(all, 1, Len(all) - 1)

group_into_flows(timeline_events) ==
    IF timeline_events = <<>> THEN <<>>
    ELSE GroupLoop(timeline_events, <<>>, <<>>)

TheEvents == CHOOSE t \in tlEvents : TRUE
TheFlows == CHOOSE f \in tlFlows : TRUE

\* The callers return before merging when both streams are empty.
MergeTimelineData ==
    /\ UNCHANGED notFlowVars
    /\ tlMessages # <<>> \/ tlDecisions # <<>>
    /\ tlEvents = {}
    /\ tlEvents' = {merge_timeline_data(tlMessages, tlDecisions)}
    /\ UNCHANGED <<tlMessages, tlDecisions, tlFlows, tlAnalysis, scInteraction, scLoad>>

GroupIntoFlows ==
    /\ UNCHANGED notFlowVars
    /\ tlEvents # {}
    /\ tlFlows = {}
    /\ tlFlows' = {group_into_flows(TheEvents)}
    /\ UNCHANGED <<tlMessages, tlDecisions, tlEvents, tlAnalysis, scInteraction, scLoad>>

\* The two loaders have returned: each stream is sorted by time.
FlowInit ==
    /\ \E t \in Timelines(CorrelatorShapes, CorrelatorGaps, MaxEvents) :
         /\ tlMessages = SelectSeq(t, IsMessage)
         /\ tlDecisions = SelectSeq(t, IsDecision)
    /\ tlEvents = {}
    /\ tlFlows = {}
    /\ tlAnalysis = {}
    /\ scInteraction = {}
    /\ scLoad = {}

FlowSpecInit == FlowInit /\ ProxyIdle /\ CfgIdle /\ UnwrapIdle /\ StoreIdle /\ ReadIdle /\ RerunIdle /\ ExportIdle /\ SessionIdle /\ IdentIdle /\ PairIdle /\ CountIdle

FlowNext == MergeTimelineData \/ GroupIntoFlows

FlowSpec == FlowSpecInit /\ [][FlowNext]_vars

\* The events of the flows, in flow order.
RECURSIVE FlattenFlows(_)
FlattenFlows(flows) ==
    IF flows = <<>> THEN <<>>
    ELSE flows[1].events \o FlattenFlows(Tail(flows))

\* C14: in the flows group_into_flows returns for a time-sorted event list,
\* two consecutive events of one flow are at most time_window_seconds apart,
\* the last event of a flow and the first event of the next one are more
\* than time_window_seconds apart, and the flows, in order, hold exactly the
\* events of the list (each flow is a maximal run).
C14_FlowsAreMaximalRuns ==
    \A flows \in tlFlows :
        /\ FlattenFlows(flows) = TheEvents
        /\ \A k \in 1..Len(flows) :
              /\ flows[k].events # <<>>
              /\ \A i \in 1..(Len(flows[k].events) - 1) :
                    flows[k].events[i + 1].ts - flows[k].events[i].ts
                        <= time_window_seconds
        /\ \A k \in 1..(Len(flows) - 1) :
              flows[k + 1].events[1].ts
                  - flows[k].events[Len(flows[k].events)].ts > time_window_seconds

\* A list cut into two flows, the first holding two events exactly
\* time_window_seconds apart.
C14_Witness ==
    \E flows \in tlFlows :
        /\ Len(flows) = 2
        /\ Len(flows[1].events) = 2
        /\ flows[1].events[2].ts - flows[1].events[1].ts = time_window_seconds
RECURSIVE SumEventCount(_)
SumEventCount(flows) ==
    IF flows = <<>> THEN 0
    ELSE flows[1].event_count + SumEventCount(Tail(flows))

\* C36: flow grouping partitions its input: every input event appears in
\* exactly one returned flow, flows are non-empty and keep the input order,
\* and the sum of event_count over the returned flows equals the number of
\* input events.
C36_FlowsPartitionInput ==
    \A flows \in tlFlows :
        /\ \A k \in 1..Len(flows) :
              /\ flows[k].events # <<>>
              /\ flows[k].event_count = Len(flows[k].events)
        /\ FlattenFlows(flows) = TheEvents
        /\ SumEventCount(flows) = Len(TheEvents)

\* Three events grouped into a flow of two and a flow of one.
C36_Witness ==
    \E flows \in tlFlows :
        /\ Len(TheEvents) = 3
        /\ Len(flows) = 2
        /\ flows[1].event_count = 2
        /\ flows[2].event_count = 1

(***************************************************************************)
(* User context of a flow: streams as the writers of this repository       *)
(* produce them.  A user prompt record carries the server_name the prompt  *)
(* writers give it, and every decision the proxy persists carries the      *)
(* user_prompt text its session was opened with.                           *)
(***************************************************************************)
MaxContextEvents == 3

\* UserPromptCapture.capture_user_prompt / write_user_prompt_to_audit:
\* "server_name": server_context or "user_prompt", direction user->llm.
LoggedPromptEvent ==
    Event("mcp_audit", {"user_prompt"}, USER_TO_LLM, {}, {}, FALSE, {}, {},
          {"list files"}, {})
\* A decision opened by _handle_tool_call_decision and completed by a result.
InferredPrompt == "[Inferred] User request requiring tool usage"
InferredDecisionEvent ==
    Event("llm_decision", {}, NoDirection, {}, {}, FALSE, {}, {}, {InferredPrompt},
          {TRUE})

ContextShapes ==
    {CallEvent, CallResultEvent, ListEvent, LoggedPromptEvent, InferredDecisionEvent}

ContextInit ==
    /\ \E t \in Timelines(ContextShapes, CorrelatorGaps, MaxContextEvents) :
         /\ tlMessages = SelectSeq(t, IsMessage)
         /\ tlDecisions = SelectSeq(t, IsDecision)
    /\ tlEvents = {}
    /\ tlFlows = {}
    /\ tlAnalysis = {}
    /\ scInteraction = {}
    /\ scLoad = {}

ContextSpecInit == ContextInit /\ ProxyIdle /\ CfgIdle /\ UnwrapIdle /\ StoreIdle /\ ReadIdle /\ RerunIdle /\ ExportIdle /\ SessionIdle /\ IdentIdle /\ PairIdle /\ CountIdle

ContextNext == MergeTimelineData \/ GroupIntoFlows

ContextSpec == ContextSpecInit /\ [][ContextNext]_vars

\* An explicit user prompt record / a decision with an embedded prompt.
IsUserPromptEvent(event) ==
    event.source = "mcp_audit" /\ event.direction = USER_TO_LLM /\ event.prompt # {}
CarriesEmbeddedPrompt(event) ==
    event.source = "llm_decision" /\ event.prompt # {}

ExplicitPrompts(flow_events) ==
    UNION {flow_events[i].prompt :
              i \in {j \in 1..Len(flow_events) : IsUserPromptEvent(flow_events[j])}}

\* C32: when a flow contains both an explicit user prompt event (direction
\* user->llm) and an LLM decision carrying an embedded prompt, the flow's
\* user_prompt is the content of the explicit user prompt event, whichever of
\* the two comes first in the timeline.
C32_ExplicitPromptPreferred ==
    \A flows \in tlFlows :
        \A k \in 1..Len(flows) :
            (/\ \E i \in 1..Len(flows[k].events) : IsUserPromptEvent(flows[k].events[i])
             /\ \E i \in 1..Len(flows[k].events) : CarriesEmbeddedPrompt(flows[k].events[i]))
                => /\ flows[k].user_prompt # {}
                   /\ flows[k].user_prompt \subseteq ExplicitPrompts(flows[k].events)

\* C33: a flow's has_user_context is true only if a user prompt event falls
\* inside the flow; a flow made only of protocol messages and LLM decision
\* records has has_user_context = false.
C33_UserContextOnlyFromPromptEvent ==
    \A flows \in tlFlows :
        \A k \in 1..Len(flows) :
            flows[k].has_user_context
                => \E i \in 1..Len(flows[k].events) : IsUserPromptEvent(flows[k].events[i])

\* The servers whose JSON-RPC traffic the flow holds.
JsonRpcServers(flow_events) ==
    {ServerNameOf(flow_events[i]) :
        i \in {j \in 1..Len(flow_events) :
                  /\ flow_events[j].source = "mcp_audit"
                  /\ flow_events[j].direction # USER_TO_LLM}}

\* C39: cross_server_flow is true only if the flow contains JSON-RPC traffic
\* captured from at least two distinct MCP servers; a user prompt record
\* inside the flow never counts as an additional server.
C39_CrossServerNeedsTwoServers ==
    \A flows \in tlFlows :
        \A k \in 1..Len(flows) :
            flows[k].cross_server_flow
                => Cardinality(JsonRpcServers(flows[k].events)) >= 2

\* A response that corresponds to a request: the answer of the same server
\* to the same JSON-RPC id, carrying a result and no error.
IsNonErrorResponseTo(response, request) ==
    /\ DirectionNamesServer(response.direction)
    /\ response.id = request.id
    /\ response.server_name = request.server_name
    /\ response.result
    /\ response.error = {}

SuccessBySpecRule(flow_events) ==
    \/ \E i \in 1..Len(flow_events) :
          /\ flow_events[i].source = "llm_decision"
          /\ flow_events[i].success = {TRUE}
    \/ \E i, j \in 1..Len(flow_events) :
          /\ IsToolCall(flow_events[i])
          /\ IsNonErrorResponseTo(flow_events[j], flow_events[i])

\* C15: a flow's success is true if and only if some LLM decision of the
\* flow has success = true, or the flow holds a tools/call request together
\* with a non-error response to that request; otherwise it is false.
C15_SuccessIffDecisionOrMatchedCall ==
    \A flows \in tlFlows :
        \A k \in 1..Len(flows) :
            flows[k].success <=> SuccessBySpecRule(flows[k].events)

\* The server_name values the events of a flow carry.
ServerNamesCarried(flow_events) ==
    UNION {flow_events[i].server_name : i \in 1..Len(flow_events)}

MaxPipelineEvents == 4
MaxTraces == 2
MaxRetries == 4

Pts(n) == n * 100
Min(a, b) == IF a < b THEN a ELSE b

JSON_RPC == "JSON-RPC"
HTTP == "HTTP"

\* self.baseline_latency_ms
baseline_latency_ms == 15000

\* The user queries of the model and what _calculate_prompt_complexity
\* finds in each (after lower()): placeholder test, len(query.split()),
\* and how many technical terms, logic terms and action verbs occur in it,
\* whether a time word occurs, whether a digit or a quantity word occurs.
InferredQuery == "[Inferred] User request requiring tool usage"
SimpleQuery == "list files"
ComplexQuery ==
    "if the api token config query fails today then create update delete and export all 3 json files before sync"

QueryFeatures(query) ==
    CASE query = InferredQuery ->
            [placeholder |-> TRUE, word_count |-> 6, technical_count |-> 0,
             logic_count |-> 0, action_count |-> 0, time_word |-> FALSE,
             quantity |-> FALSE]
      [] query = SimpleQuery ->
            [placeholder |-> FALSE, word_count |-> 2, technical_count |-> 0,
             logic_count |-> 0, action_count |-> 1, time_word |-> FALSE,
             quantity |-> FALSE]
      [] query = ComplexQuery ->
            [placeholder |-> FALSE, word_count |-> 20, technical_count |-> 6,
             logic_count |-> 1, action_count |-> 5, time_word |-> TRUE,
             quantity |-> TRUE]

\* One MCPMessageTrace, reduced to what the scorer reads: payload.method
\* ({} when absent), error_code ({} is None), the nesting depth of the
\* payload, and whether str(payload) holds 'api key', 'token', 'auth' or
\* 'config'.
Trace(direction, protocol, method, error_code, payload_depth, config_keyword) ==
    [direction |-> direction, protocol |-> protocol, method |-> method,
     error_code |-> error_code, payload_depth |-> payload_depth,
     config_keyword |-> config_keyword]

\* A tools/call request; a 401 answer saying "unauthorized"; a 500 answer;
\* a tools/list request over HTTP with deeply nested params.
OkTrace == Trace(LLM_TO_MCP_CLIENT, JSON_RPC, {"tools/call"}, {}, 2, FALSE)
AuthErrorTrace == Trace(MCP_CLIENT_TO_SERVER, JSON_RPC, {}, {"401"}, 1, TRUE)
ServerErrorTrace == Trace(MCP_CLIENT_TO_SERVER, JSON_RPC, {}, {"500"}, 1, FALSE)
DeepTrace == Trace(LLM_TO_MCP_CLIENT, HTTP, {"tools/list"}, {}, 4, FALSE)
TraceShapes == {OkTrace, AuthErrorTrace, ServerErrorTrace, DeepTrace}

\* total_latency_ms: None, 0, beyond twice and beyond three times the baseline.
Latencies == {{}, {0}, {2 * baseline_latency_ms + 1000}, {3 * baseline_latency_ms + 1000}}

\* The interactions a caller may hand to analyze_interaction.
Interactions ==
    [user_query : {InferredQuery, SimpleQuery, ComplexQuery},
     message_traces : SeqsUpTo(TraceShapes, MaxTraces),
     success : BOOLEAN,
     total_latency_ms : Latencies,
     retry_count : 0..MaxRetries]

\* _calculate_prompt_complexity before min(., 100), in points.
PromptComplexitySum(interaction) ==
    LET f == QueryFeatures(interaction.user_query)
    IN  IF f.placeholder THEN 20
        ELSE 20
             + (IF f.word_count > 10 THEN 25
                ELSE IF f.word_count > 5 THEN 15
                ELSE IF f.word_count > 2 THEN 5 ELSE 0)
             + f.technical_count * 8
             + f.logic_count * 10
             + (IF f.action_count > 2 THEN (f.action_count - 1) * 12 ELSE 0)
             + (IF f.time_word THEN 15 ELSE 0)
             + (IF f.quantity THEN 10 ELSE 0)

\* The tool/method transitions counted by the second loop.
RECURSIVE ToolChanges(_, _)
ToolChanges(traces, last_method) ==
    IF traces = <<>> THEN 0
    ELSE LET current_method == Head(traces).method
         IN  (IF current_method # {} /\ last_method # {} /\ current_method # last_method
              THEN 1 ELSE 0)
             + ToolChanges(Tail(traces),
                           IF current_method # {} THEN current_method ELSE last_method)

\* _calculate_context_switching before min(., 100), in points.
ContextSwitchingSum(interaction) ==
    LET traces == interaction.message_traces
        direction_changes ==
            Cardinality({k \in 2..Len(traces) : traces[k].direction # traces[k - 1].direction})
        switching_score == direction_changes * 10 + ToolChanges(traces, {}) * 15
    IN  IF Len(traces) < 2 THEN 20
        ELSE IF switching_score = 0 THEN 5 ELSE switching_score

\* error_code starts with '4' or '5', or names a timeout/connection/parse error.
IsActualError(trace) ==
    \E code \in trace.error_code :
        code \in {"400", "401", "403", "422", "500", "timeout", "connection_error",
                  "parse_error"}

\* _calculate_retry_frustration before min(., 100), in points.
RetryFrustrationSum(interaction) ==
    LET traces == interaction.message_traces
    IN  10
        + (IF interaction.retry_count > 0 THEN interaction.retry_count * 25 ELSE 0)
        + (IF ~interaction.success THEN 40 ELSE 0)
        + Cardinality({k \in 1..Len(traces) : IsActualError(traces[k])}) * 20
        + (IF \E ms \in interaction.total_latency_ms :
                  ms > 0 /\ ms > baseline_latency_ms * 2
           THEN IF interaction.success THEN 15 ELSE 30
           ELSE 0)

IsAuthError(trace) == trace.error_code \in {{"401"}, {"403"}}
IsParamError(trace) == trace.error_code \in {{"400"}, {"422"}}
IsConfigKeywordError(trace) == trace.error_code # {} /\ trace.config_keyword

\* _calculate_configuration_friction before min(., 100), in points.
ConfigurationFrictionSum(interaction) ==
    LET traces == interaction.message_traces
    IN  10
        + Cardinality({k \in 1..Len(traces) : IsAuthError(traces[k])}) * 50
        + Cardinality({k \in 1..Len(traces) : IsParamError(traces[k])}) * 30
        + Cardinality({k \in 1..Len(traces) : IsConfigKeywordError(traces[k])}) * 35
        + (IF \E ms \in interaction.total_latency_ms : ms > baseline_latency_ms * 3
           THEN IF interaction.success THEN 10 ELSE 25
           ELSE 0)

IsDeepPayload(trace) == trace.payload_depth > 3

\* _calculate_integration_cognition before min(., 100), in points.
IntegrationCognitionSum(interaction) ==
    LET traces == interaction.message_traces
        protocols == {traces[k].protocol : k \in 1..Len(traces)}
        directions == {traces[k].direction : k \in 1..Len(traces)}
    IN  20
        + (IF Cardinality(protocols) > 1 THEN 20 ELSE 0)
        + Cardinality(directions) * 10
        + Cardinality({k \in 1..Len(traces) : IsDeepPayload(traces[k])}) * 15

\* min(score, 100.0)
Clamp(score) == Min(score, Pts(100))

\* The weighted sum with every sub-score given the same weight.
WeightedSum_EqualWeights(p, c, r, f, g) == (20 * p + 20 * c + 20 * r + 20 * f + 20 * g) \div 100

\* The weighted sum of _calculate_overall_cognitive_load before its min.
WeightedSum(p, c, r, f, g) == (15 * p + 20 * c + 30 * r + 25 * f + 10 * g) \div 100

MetricNames ==
    {"overall_score", "prompt_complexity", "context_switching", "retry_frustration",
     "configuration_friction", "integration_cognition"}
SubScoreNames == MetricNames \ {"overall_score"}

Metrics(overall, p, c, r, f, g) ==
    [overall_score |-> overall, prompt_complexity |-> p, context_switching |-> c,
     retry_frustration |-> r, configuration_friction |-> f,
     integration_cognition |-> g]

InRange(score) == 0 <= score /\ score <= Pts(100)

\* CognitiveLoadMetrics: every field is Field(ge=0, le=100).
CognitiveLoadMetricsValid(m) == \A name \in MetricNames : InRange(m[name])

\* The metrics analyze_interaction returns from its except branch.
DefaultMetrics == Metrics(Pts(50), Pts(50), Pts(50), Pts(50), Pts(50), Pts(50))

\* analyze_interaction with no score capped and no field validated.
analyze_interaction_Unclamped(interaction) ==
    LET p == Pts(PromptComplexitySum(interaction))
        c == Pts(ContextSwitchingSum(interaction))
        r == Pts(RetryFrustrationSum(interaction))
        f == Pts(ConfigurationFrictionSum(interaction))
        g == Pts(IntegrationCognitionSum(interaction))
    IN  Metrics(WeightedSum(p, c, r, f, g), p, c, r, f, g)

analyze_interaction(interaction) ==
    LET p == Clamp(Pts(PromptComplexitySum(interaction)))
        c == Clamp(Pts(ContextSwitchingSum(interaction)))
        r == Clamp(Pts(RetryFrustrationSum(interaction)))
        f == Clamp(Pts(ConfigurationFrictionSum(interaction)))
        g == Clamp(Pts(IntegrationCognitionSum(interaction)))
        m == Metrics(Clamp(WeightedSum(p, c, r, f, g)), p, c, r, f, g)
    IN  IF CognitiveLoadMetricsValid(m) THEN m ELSE DefaultMetrics
\* The flow's user_prompt is not a string: user_query.startswith raises.
ConversionRaises(flow) == flow.user_prompt = {NonStringPrompt}

\* The MCPInteraction built for one flow: one trace per mcp_call with
\* error_code=None (payload {'method': tool, 'params': args}), or a single
\* 'user_interaction' trace; retry_count=0.
FlowToInteraction(flow) ==
    [user_query |-> IF flow.user_prompt = {} THEN InferredQuery
                    ELSE CHOOSE q \in flow.user_prompt : TRUE,
     message_traces |->
        IF flow.mcp_calls # <<>>
        THEN [k \in 1..Len(flow.mcp_calls) |->
                Trace(LLM_TO_MCP_CLIENT, JSON_RPC, flow.mcp_calls[k].tool, {}, 1, FALSE)]
        ELSE <<Trace(LLM_TO_MCP_CLIENT, JSON_RPC, {"user_interaction"}, {}, 0, FALSE)>>,
     success |-> flow.success,
     total_latency_ms |-> {flow.duration_ms},
     retry_count |-> 0]

\* The loop runs inside one try: the first flow that raises ends it and the
\* interactions built so far are returned.
RECURSIVE convert_flows_to_interactions(_)
convert_flows_to_interactions(flows) ==
    IF flows = <<>> \/ ConversionRaises(Head(flows)) THEN <<>>
    ELSE <<FlowToInteraction(Head(flows))>> \o convert_flows_to_interactions(Tail(flows))

\* x or 50.0
OrDefault(score) == IF score = 0 THEN Pts(50) ELSE score

RECURSIVE SumOf(_, _)
SumOf(loads, name) ==
    IF loads = <<>> THEN 0 ELSE Head(loads)[name] + SumOf(Tail(loads), name)

\* round(total / n, 1) of an exactly represented quotient: to the nearest
\* tenth, a tie going to the even tenth.
RoundTenth(total, n) ==
    LET unit == 10 * n
        tenths == total \div unit
        rest == total % unit
    IN  IF 2 * rest < unit THEN tenths * 10
        ELSE IF 2 * rest > unit THEN (tenths + 1) * 10
        ELSE IF tenths % 2 = 0 THEN tenths * 10 ELSE (tenths + 1) * 10

\* round(total / n, 1) of the overall scores, which are sums of float
\* products: on a tie the binary value decides, so either tenth is possible.
RoundTenthOutcomes(total, n) ==
    LET unit == 10 * n
        tenths == total \div unit
        rest == total % unit
    IN  IF 2 * rest = unit THEN {tenths * 10, (tenths + 1) * 10}
        ELSE {RoundTenth(total, n)}

\* The if/elif chain that grades the averaged overall score.
LetterGrade(overall_score) ==
    IF overall_score <= Pts(20) THEN "A"
    ELSE IF overall_score <= Pts(40) THEN "B"
    ELSE IF overall_score <= Pts(60) THEN "C"
    ELSE IF overall_score <= Pts(80) THEN "D"
    ELSE "F"

\* The 'cognitive_load' dictionary of a result.  A sub-score key the
\* dictionary does not have is {}.  `loads` are the metrics of the single
\* interactions the averages were taken over.
EmptyAnalysis ==
    [kind |-> "empty", overall_score |-> 0, prompt_complexity |-> {0},
     context_switching |-> {0}, retry_frustration |-> {0},
     configuration_friction |-> {0}, integration_cognition |-> {0},
     grade |-> "F", loads |-> <<>>]

ErrorAnalysis ==
    [kind |-> "error", overall_score |-> Pts(50), prompt_complexity |-> {},
     context_switching |-> {}, retry_frustration |-> {},
     configuration_friction |-> {}, integration_cognition |-> {},
     grade |-> "C", loads |-> <<>>]

NormalAnalyses(interactions) ==
    LET loads == [k \in 1..Len(interactions) |->
                    LET m == analyze_interaction(interactions[k])
                    IN  [name \in MetricNames |-> OrDefault(m[name])]]
        n == Len(loads)
        avg(name) == RoundTenth(SumOf(loads, name), n)
    IN  {[kind |-> "normal", overall_score |-> overall,
          prompt_complexity |-> {avg("prompt_complexity")},
          context_switching |-> {avg("context_switching")},
          retry_frustration |-> {avg("retry_frustration")},
          configuration_friction |-> {avg("configuration_friction")},
          integration_cognition |-> {avg("integration_cognition")},
          grade |-> LetterGrade(overall), loads |-> loads] :
            overall \in RoundTenthOutcomes(SumOf(loads, "overall_score"), n)}

\* The results generate_cognitive_analysis can return for the flows;
\* `raises` says whether a step inside its try block raised.
generate_cognitive_analysis(flows, raises) ==
    LET interactions == convert_flows_to_interactions(flows)
    IN  IF interactions = <<>> THEN {EmptyAnalysis}
        ELSE IF raises THEN {ErrorAnalysis}
        ELSE NormalAnalyses(interactions)

\* The callers analyse only a non-empty list of flows.
GenerateCognitiveAnalysis ==
    /\ UNCHANGED notFlowVars
    /\ tlFlows # {}
    /\ TheFlows # <<>>
    /\ tlAnalysis = {}
    /\ \E raises \in BOOLEAN :
         \E result \in generate_cognitive_analysis(TheFlows, raises) :
            tlAnalysis' = {result}
    /\ UNCHANGED <<tlMessages, tlDecisions, tlEvents, tlFlows, scInteraction, scLoad>>

AnalyzeInteraction ==
    /\ UNCHANGED notFlowVars
    /\ scInteraction # {}
    /\ scLoad = {}
    /\ scLoad' = {analyze_interaction(CHOOSE i \in scInteraction : TRUE)}
    /\ UNCHANGED <<tlMessages, tlDecisions, tlEvents, tlFlows, tlAnalysis, scInteraction>>

PipelineShapes ==
    {CallEvent, CallErrorEvent, RetryEvent, RetryResultEvent, BadPromptEvent}
PipelineGaps == {1, time_window_seconds + 1}

\* Either the loaders have returned a message stream for the report
\* pipeline, or a caller holds an interaction for analyze_interaction.
ScoreInit ==
    /\ tlDecisions = <<>>
    /\ tlEvents = {}
    /\ tlFlows = {}
    /\ tlAnalysis = {}
    /\ scLoad = {}
    /\ \/ /\ tlMessages \in Timelines(PipelineShapes, PipelineGaps, MaxPipelineEvents)
          /\ scInteraction = {}
       \/ /\ tlMessages = <<>>
          /\ \E i \in Interactions : scInteraction = {i}

ScoreSpecInit == ScoreInit /\ ProxyIdle /\ CfgIdle /\ UnwrapIdle /\ StoreIdle /\ ReadIdle /\ RerunIdle /\ ExportIdle /\ SessionIdle /\ IdentIdle /\ PairIdle /\ CountIdle

ScoreNext ==
    MergeTimelineData \/ GroupIntoFlows \/ GenerateCognitiveAnalysis \/ AnalyzeInteraction

ScoreSpec == ScoreSpecInit /\ [][ScoreNext]_vars

\* The captured events of the scenario: a tools/call answered by a 401
\* error, then a second tools/call of the same tool answered by a result,
\* every event within the time window of the one before.
AuthFailureThenRetry(events) ==
    /\ Len(events) = 4
    /\ [k \in 1..4 |-> [events[k] EXCEPT !.ts = 0]]
          = <<CallEvent, CallErrorEvent, RetryEvent, RetryResultEvent>>
    /\ \A k \in 1..3 : events[k + 1].ts - events[k].ts <= time_window_seconds

\* C18: for captured events in which a tools/call receives a 401 error
\* response and a second tools/call of the same tool, within the time
\* window, receives a result, grouping and scoring yield one flow with
\* success = true whose configuration_friction is at least 60 and whose
\* retry_frustration is at least 35.
C18_AuthFailureThenRetryScores ==
    \A a \in tlAnalysis :
        (a.kind = "normal" /\ AuthFailureThenRetry(TheEvents)) =>
            /\ Len(TheFlows) = 1
            /\ TheFlows[1].success
            /\ \A score \in a.configuration_friction : score >= Pts(60)
            /\ \A score \in a.retry_frustration : score >= Pts(35)

\* C19: for every interaction and every aggregated analysis, each of the
\* five sub-scores it reports and the overall score lie in [0, 100].
C19_ScoresWithinRange ==
    /\ \A m \in scLoad : \A name \in MetricNames : InRange(m[name])
    /\ \A a \in tlAnalysis :
          /\ InRange(a.overall_score)
          /\ \A name \in SubScoreNames : \A score \in a[name] : InRange(score)
          /\ \A k \in 1..Len(a.loads) :
                \A name \in MetricNames : InRange(a.loads[k][name])

\* An interaction whose retry penalties add up to more than 100 was scored,
\* and its retry_frustration is 100.
C19_Witness ==
    \E i \in scInteraction : \E m \in scLoad :
        /\ RetryFrustrationSum(i) > 100
        /\ m.retry_frustration = Pts(100)

\* The letter grade the thresholds give: A up to 20, B up to 40, C up to
\* 60, D up to 80, else F.
GradeByThresholds(overall_score) ==
    CASE overall_score <= Pts(20) -> "A"
      [] overall_score > Pts(20) /\ overall_score <= Pts(40) -> "B"
      [] overall_score > Pts(40) /\ overall_score <= Pts(60) -> "C"
      [] overall_score > Pts(60) /\ overall_score <= Pts(80) -> "D"
      [] OTHER -> "F"

\* C20: in every result the cognitive analysis returns (normal, empty,
\* error fallback) the reported grade is the threshold function of the
\* reported overall score.
C20_GradeIsFunctionOfOverall ==
    \A a \in tlAnalysis : a.grade = GradeByThresholds(a.overall_score)

\* The weights of _calculate_overall_cognitive_load in hundredths, applied
\* to five sub-scores; the result is in hundredths of the scores' unit.
WeightedHundredths(p, c, r, f, g) == 15 * p + 20 * c + 30 * r + 25 * f + 10 * g

\* The only sub-score a set of at most one reported sub-score holds.
Reported(scores) == CHOOSE score \in scores : TRUE

ReportsSubScores(a) == \A name \in SubScoreNames : a[name] # {}

Abs(n) == IF n < 0 THEN 0 - n ELSE n

\* round(x, 1) keeps one decimal: a tenth of a point, in hundredths.
TenthOfPoint == 10

MaxRuns == 2
MaxSnapshotEvents == 2

ServerNames == {"A", "B", "unknown"}

\* A hash seed, given as the order in which it makes a set of the server
\* names iterate.
HashSeeds ==
    {seed \in [1..Cardinality(ServerNames) -> ServerNames] :
        \A i, j \in DOMAIN seed : i # j => seed[i] # seed[j]}

\* list(servers_involved)
ListOfSet(names, seed) == SelectSeq(seed, LAMBDA name : name \in names)

\* The keys of a flow summary the output is compared on.
FlowOutput(flow, seed) ==
    [flow_id |-> flow.events[1].ts,
     event_count |-> flow.event_count,
     servers_involved |-> ListOfSet(flow.servers_involved, seed),
     user_prompt |-> flow.user_prompt,
     success |-> flow.success]

\* One run: merge_timeline_data, group_into_flows, _create_flow_summary.
correlate(msgs, decisions, seed) ==
    LET flows == group_into_flows(merge_timeline_data(msgs, decisions))
    IN  [k \in 1..Len(flows) |-> FlowOutput(flows[k], seed)]

SnapshotShapes == {CallEvent, ListEvent, PromptEvent, DecisionEvent(TRUE)}
SnapshotGaps == {1, time_window_seconds + 1}

RerunInit ==
    /\ \E t \in Timelines(SnapshotShapes, SnapshotGaps, MaxSnapshotEvents) :
         /\ rrMessages = SelectSeq(t, IsMessage)
         /\ rrDecisions = SelectSeq(t, IsDecision)
    /\ rrSeeds = <<>>
    /\ rrOutputs = <<>>

\* A run of the correlator in a process started for it (the report command).
CorrelateInNewProcess ==
    /\ UNCHANGED notRerunVars
    /\ Len(rrOutputs) < MaxRuns
    /\ \E seed \in HashSeeds :
         /\ rrSeeds' = Append(rrSeeds, seed)
         /\ rrOutputs' = Append(rrOutputs, correlate(rrMessages, rrDecisions, seed))
    /\ UNCHANGED <<rrMessages, rrDecisions>>

\* A further run in the process of the run before (the exporter loop).
CorrelateAgain ==
    /\ UNCHANGED notRerunVars
    /\ rrOutputs # <<>>
    /\ Len(rrOutputs) < MaxRuns
    /\ rrSeeds' = Append(rrSeeds, rrSeeds[Len(rrSeeds)])
    /\ rrOutputs' = Append(rrOutputs, correlate(rrMessages, rrDecisions, rrSeeds[Len(rrSeeds)]))
    /\ UNCHANGED <<rrMessages, rrDecisions>>

RerunSpecInit == RerunInit /\ ProxyIdle /\ CfgIdle /\ UnwrapIdle /\ StoreIdle /\ ReadIdle /\ FlowIdle /\ ExportIdle /\ SessionIdle /\ IdentIdle /\ PairIdle /\ CountIdle

RerunNext == CorrelateInNewProcess \/ CorrelateAgain

RerunSpec == RerunSpecInit /\ [][RerunNext]_vars

\* C22: running the correlator twice on the same event-store snapshot
\* with the same time window yields identical flow output: the same flow
\* boundaries, flow ids, success values, user prompts, and the same content
\* and order of servers_involved.
C22_RerunYieldsIdenticalOutput ==
    \A i, j \in 1..Len(rrOutputs) : rrOutputs[i] = rrOutputs[j]

\* The same comparison with servers_involved read as a set of names.
RerunsAgreeUpToServerOrder ==
    \A i, j \in 1..Len(rrOutputs) :
        /\ Len(rrOutputs[i]) = Len(rrOutputs[j])
        /\ \A k \in 1..Len(rrOutputs[i]) :
              LET a == rrOutputs[i][k]
                  b == rrOutputs[j][k]
              IN  /\ [a EXCEPT !.servers_involved = <<>>] = [b EXCEPT !.servers_involved = <<>>]
                  /\ {a.servers_involved[n] : n \in 1..Len(a.servers_involved)}
                       = {b.servers_involved[n] : n \in 1..Len(b.servers_involved)}
(***************************************************************************)
(* The real-time telemetry exporter (integrations/opentelemetry.py) and    *)
(* the integration manager that creates it (integrations/manager.py).      *)
(* Every OpenTelemetryIntegration sets the global providers up and starts  *)
(* an exporter loop: a task when an event loop is running, a daemon thread *)
(* with its own event loop otherwise.  The loop suspends only in           *)
(* asyncio.sleep; one iteration is one step.  The loops are kept as a bag: *)
(* nothing tells two loops in the same state apart.                        *)
(***************************************************************************)
MaxInstances == 2

\* The keys of the payloads _export_recent_data hands to
\* send_cognitive_metrics.
RealMetrics ==
    {"server", "overall_usability_score", "success_rate", "abandonment_rate",
     "avg_flow_duration_ms", "tool_usage_success_rate", "llm_reasoning_quality",
     "total_flows", "successful_flows", "cross_server_flows", "user_context_rate",
     "llm_reasoning_rate", "total_tool_calls", "total_llm_decisions", "overall_score",
     "prompt_complexity_score", "context_switching_score", "retry_frustration_score",
     "configuration_friction_score", "integration_cognition_score", "grade",
     "interaction_count"}
BaselineMetrics ==
    {"server", "overall_usability_score", "success_rate", "total_flows",
     "interaction_count", "overall_score", "grade"}
FallbackMetrics ==
    {"server", "overall_usability_score", "success_rate", "total_flows",
     "interaction_count", "error"}

\* component.endswith("_score") with a numeric value: one histogram record each.
ScoreKeys ==
    {"overall_usability_score", "overall_score", "prompt_complexity_score",
     "context_switching_score", "retry_frustration_score",
     "configuration_friction_score", "integration_cognition_score"}

\* The keys send_cognitive_metrics tests with `in metrics`: one record each.
RecordedKeys ==
    {"overall_usability_score", "total_flows", "successful_flows", "success_rate",
     "abandonment_rate", "user_context_rate", "llm_reasoning_rate", "total_tool_calls",
     "tool_usage_success_rate", "cross_server_flows", "avg_flow_duration_ms",
     "total_llm_decisions", "grade"}

\* send_cognitive_metrics: the record calls it makes on the backend, how
\* many of them the backend accepted, and whether it logged an error.  A
\* backend that raises does so on the first call made; the except clause
\* logs and returns False.
send_cognitive_metrics(metrics, backendRaises) ==
    LET sites == Cardinality(metrics \cap ScoreKeys) + Cardinality(metrics \cap RecordedKeys)
        fails == backendRaises /\ sites > 0
    IN  [calls |-> IF fails THEN 1 ELSE sites,
         accepted |-> IF fails THEN 0 ELSE sites,
         logs |-> IF fails THEN {"backend"} ELSE {},
         errors |-> IF fails THEN {"backend"} ELSE {}]

NoSend == [calls |-> 0, accepted |-> 0, logs |-> {}, errors |-> {}]

Both(first, second) ==
    [calls |-> first.calls + second.calls, accepted |-> first.accepted + second.accepted,
     logs |-> first.logs \cup second.logs, errors |-> first.errors \cup second.errors]

\* The except branch of _export_recent_data, its fallback send left out.
export_recent_data_NoFallback(hasData, raisesIn, backendRaises) ==
    LET raised == [NoSend EXCEPT !.logs = {raisesIn}, !.errors = {raisesIn}]
    IN  IF raisesIn = "load" THEN raised
        ELSE IF ~hasData THEN send_cognitive_metrics(BaselineMetrics, backendRaises)
        ELSE IF raisesIn \in {"correlate", "score"} THEN raised
        ELSE IF raisesIn = "interactions"
             THEN Both(send_cognitive_metrics(RealMetrics, backendRaises), raised)
        ELSE send_cognitive_metrics(RealMetrics, backendRaises)

\* _export_recent_data.  hasData: the loaders returned a message or a
\* decision (the timeline is then not empty and neither is the list of
\* flows).  raisesIn: the step of the try block that raises, if any: the
\* loaders, merging and grouping, the analysis, or the per-message
\* counters after the send.
export_recent_data(hasData, raisesIn, backendRaises) ==
    LET fallback == Both([NoSend EXCEPT !.logs = {raisesIn}, !.errors = {raisesIn}],
                         send_cognitive_metrics(FallbackMetrics, backendRaises))
    IN  IF raisesIn = "load" THEN fallback
        ELSE IF ~hasData THEN send_cognitive_metrics(BaselineMetrics, backendRaises)
        ELSE IF raisesIn \in {"correlate", "score"} THEN fallback
        ELSE IF raisesIn = "interactions"
             THEN Both(send_cognitive_metrics(RealMetrics, backendRaises), fallback)
        ELSE send_cognitive_metrics(RealMetrics, backendRaises)

RaiseSites(hasData) ==
    IF hasData THEN {"none", "load", "correlate", "score", "interactions"}
    ELSE {"none", "load"}

\* An except clause that catches nothing.
LoopCatches_Nothing(exc) == FALSE

\* `except Exception` of the while loop of _continuous_export.
LoopCatches(exc) == exc # "CancelledError"

\* One pass through the body of the while loop up to its sleep: the export,
\* then messages_file.stat(), which raises when the file went away after
\* exists().
continuous_export_body(hasData, raisesIn, backendRaises, statRaises) ==
    LET export == export_recent_data(hasData, raisesIn, backendRaises)
    IN  IF ~statRaises THEN export @@ [escaped |-> FALSE]
        ELSE IF LoopCatches("OSError")
             THEN [export EXCEPT !.logs = @ \cup {"stat"}, !.errors = @ \cup {"stat"}]
                    @@ [escaped |-> FALSE]
             ELSE [export EXCEPT !.errors = @ \cup {"stat"}] @@ [escaped |-> TRUE]


\* The exporter loop of a new integration.  export_task is the attribute
\* of the same name: set by asyncio.create_task, None in thread mode.
\* latest: the loop made the latest export iteration of all.
NewLoop(hasRunningLoop) ==
    [mode |-> IF hasRunningLoop THEN "task" ELSE "thread",
     export_task |-> hasRunningLoop,
     pc |-> "scheduled",
     cancelling |-> FALSE,
     stop_requested |-> FALSE,
     latest |-> FALSE]

\* The bag with one copy of `old` replaced by `new`.
Replace(bag, old, new) == (bag (-) SetToBag({old})) (+) SetToBag({new})

\* The bag with no loop marked as the one that iterated last.
Unmarked(bag) ==
    LET plain(loop) == [loop EXCEPT !.latest = FALSE]
        loops == {plain(loop) : loop \in BagToSet(bag)}
    IN  [loop \in loops |->
            CopiesIn(loop, bag) + CopiesIn([loop EXCEPT !.latest = TRUE], bag)]

\* OpenTelemetryIntegration.__init__: _setup_tracing and _setup_metrics
\* return early when the global provider already has a resource, then
\* _start_real_time_export starts a loop (real_time_export defaults to
\* True in the constructor, the manager and the default configuration).
ConstructIntegration(hasRunningLoop) ==
    /\ exTracerProvider' = {"resource"}
    /\ exTracerSetups' = IF exTracerProvider # {} THEN exTracerSetups ELSE exTracerSetups + 1
    /\ exMeterProvider' = {"resource"}
    /\ exMeterSetups' = IF exMeterProvider # {} THEN exMeterSetups ELSE exMeterSetups + 1
    /\ exLoops' = exLoops (+) SetToBag({NewLoop(hasRunningLoop)})

\* IntegrationManager(): _load_configured_integrations creates the
\* integration and stores it in the manager's table.
NewManager ==
    /\ UNCHANGED notExportVars
    /\ BagCardinality(exLoops) < MaxInstances
    /\ \E hasRunningLoop \in BOOLEAN : ConstructIntegration(hasRunningLoop)
    /\ exManagers' = exManagers + 1
    /\ UNCHANGED exLast

\* reload_integrations: the manager's table is cleared and loaded again;
\* the integration it held is dropped as it is.
ReloadIntegrations ==
    /\ UNCHANGED notExportVars
    /\ exManagers > 0
    /\ BagCardinality(exLoops) < MaxInstances
    /\ \E hasRunningLoop \in BOOLEAN : ConstructIntegration(hasRunningLoop)
    /\ UNCHANGED <<exManagers, exLast>>

\* The while loop runs its body and reaches one of its two sleeps, or the
\* exception leaves the coroutine.
ExportIteration ==
    /\ UNCHANGED notExportVars
    /\ \E loop \in BagToSet(exLoops) :
         /\ loop.pc = "scheduled"
         /\ ~loop.cancelling
         /\ \E hasData \in BOOLEAN, backendRaises \in BOOLEAN, statRaises \in BOOLEAN :
              \E raisesIn \in RaiseSites(hasData) :
                 LET done == continuous_export_body(hasData, raisesIn, backendRaises, statRaises)
                 IN  /\ exLoops' = Replace(Unmarked(exLoops), [loop EXCEPT !.latest = FALSE],
                            [loop EXCEPT !.pc = IF done.escaped THEN "crashed" ELSE "sleeping",
                                         !.latest = TRUE])
                     /\ exLast' = done @@ [ran |-> TRUE,
                                           after_failure |-> loop.latest /\ exLast.errors # {},
                                           after_stop |-> loop.stop_requested,
                                           pc_after |-> IF done.escaped THEN "crashed" ELSE "sleeping"]
    /\ UNCHANGED <<exTracerProvider, exMeterProvider, exTracerSetups, exMeterSetups, exManagers>>

\* asyncio.sleep(export_interval) returns.
SleepElapses ==
    /\ UNCHANGED notExportVars
    /\ \E loop \in BagToSet(exLoops) :
         /\ loop.pc = "sleeping"
         /\ exLoops' = Replace(exLoops, loop, [loop EXCEPT !.pc = "scheduled"])
    /\ UNCHANGED <<exTracerProvider, exMeterProvider, exTracerSetups, exMeterSetups, exManagers, exLast>>

\* stop_real_time_export: cancels export_task when there is one that is
\* not done.
StopRealTimeExport ==
    /\ UNCHANGED notExportVars
    /\ \E loop \in BagToSet(exLoops) :
         /\ ~loop.stop_requested
         /\ exLoops' = Replace(exLoops, loop,
               [loop EXCEPT !.stop_requested = TRUE,
                            !.cancelling = loop.export_task /\ loop.pc \notin {"cancelled", "crashed"}])
    /\ UNCHANGED <<exTracerProvider, exMeterProvider, exTracerSetups, exMeterSetups, exManagers, exLast>>

\* The cancelled task is resumed: CancelledError is raised at its await,
\* `except Exception` does not catch it and the coroutine ends.
DeliverCancel ==
    /\ UNCHANGED notExportVars
    /\ \E loop \in BagToSet(exLoops) :
         /\ loop.cancelling
         /\ loop.pc \in {"scheduled", "sleeping"}
         /\ ~LoopCatches("CancelledError")
         /\ exLoops' = Replace(exLoops, loop, [loop EXCEPT !.pc = "cancelled", !.cancelling = FALSE])
    /\ UNCHANGED <<exTracerProvider, exMeterProvider, exTracerSetups, exMeterSetups, exManagers, exLast>>

ExportInit == ExportIdle

ExportSpecInit == ExportInit /\ ProxyIdle /\ CfgIdle /\ UnwrapIdle /\ StoreIdle /\ ReadIdle /\ FlowIdle /\ RerunIdle /\ SessionIdle /\ IdentIdle /\ PairIdle /\ CountIdle

ExportNext ==
    \/ NewManager
    \/ ReloadIntegrations
    \/ ExportIteration
    \/ SleepElapses
    \/ StopRealTimeExport
    \/ DeliverCancel

ExportSpec == ExportSpecInit /\ [][ExportNext]_vars

LoopRuns(loop) == loop.pc \in {"scheduled", "sleeping"}

\* How many loops of the bag satisfy pc = state.
LoopsAt(bag, state) ==
    BagCardinality([loop \in {l \in BagToSet(bag) : l.pc = state} |-> CopiesIn(loop, bag)])

\* C23: if an export iteration fails (event loading, correlation, scoring
\* or the backend raising), the error is contained and logged: it never
\* propagates out of the exporter loop, and the loop goes to its sleep of
\* one export interval, from which it is scheduled for the next iteration.
C23_IterationFailureContained ==
    /\ LoopsAt(exLoops, "crashed") = 0
    /\ exLast.ran =>
          /\ exLast.errors \subseteq exLast.logs
          /\ ~exLast.escaped
          /\ exLast.pc_after = "sleeping"

\* A loop whose iteration failed has slept and performed its next
\* iteration, which did not fail.
C23_Witness ==
    /\ exLast.ran
    /\ exLast.after_failure
    /\ exLast.errors = {}

\* C24: after shutdown is requested (stop_real_time_export), the exporter
\* loop starts no further export iteration and terminates, whichever way
\* it was started (as a task on the running event loop, or in a background
\* thread with its own event loop).
C24_NoIterationAfterStop ==
    /\ exLast.ran => ~exLast.after_stop
    /\ \A loop \in BagToSet(exLoops) :
          (loop.stop_requested /\ LoopRuns(loop)) => loop.cancelling

\* C25: every export iteration emits at least one cognitive-metrics record
\* to the backend (full metrics when flows exist, baseline metrics when
\* there are no recent events, fallback metrics when the analysis raises):
\* no iteration completes without a record call made on the backend.
C25_EveryIterationEmits == exLast.ran => exLast.calls >= 1

\* An iteration in which the analysis raised has completed, and it made
\* the record calls of the fallback metrics.
C25_Witness ==
    /\ exLast.ran
    /\ "score" \in exLast.errors
    /\ exLast.calls >= 1

\* The stricter reading: a record the backend accepted.
EveryIterationRecordAccepted == exLast.ran => exLast.accepted >= 1

\* C30: initialising the telemetry backend more than once in a process (a
\* second integration instance, or reload_integrations) is a no-op: the
\* tracer and meter providers are configured once, and at most one
\* exporter loop is running afterwards.
C30_RepeatedInitIsNoOp ==
    /\ exTracerSetups <= 1
    /\ exMeterSetups <= 1
    /\ LoopsAt(exLoops, "scheduled") + LoopsAt(exLoops, "sleeping") <= 1

\* The part of C30 about the providers alone.
ProvidersConfiguredOnce == exTracerSetups <= 1 /\ exMeterSetups <= 1

(***************************************************************************)
(* The reasoning sessions of the enhanced proxy (enhanced_mcp_proxy.py)    *)
(* and the decisions of the LLM decision interceptor                       *)
(* (llm_decision_interceptor.py).  _analyze_llm_decision runs once per     *)
(* captured JSON frame.  A session id is a prefix and the millisecond      *)
(* clock; the frames here arrive in different milliseconds, so every       *)
(* tools/list and tools/call frame gets an id of its own.                  *)
(***************************************************************************)
MaxListFrames == 65
MaxCallFrames == 1
MaxInitFrames == 1
MaxResponseFrames == 2

\* The server->host frames: a result, a null result, an error.
ResponseShapes ==
    {[has_result |-> TRUE, result_is_null |-> FALSE, has_error |-> FALSE],
     [has_result |-> TRUE, result_is_null |-> TRUE, has_error |-> FALSE],
     [has_result |-> FALSE, result_is_null |-> TRUE, has_error |-> TRUE]}

FrameKind(frame) ==
    IF frame.has_error THEN "error"
    ELSE IF frame.result_is_null THEN "null_result" ELSE "result"

\* 'error' not in json_data and result is not None
ResponseSuccess(frame) == ~frame.has_error /\ ~frame.result_is_null

\* The branch of _analyze_llm_decision for the server's direction.
HandlesResponse(frame) == frame.has_result

Opened(kind) ==
    [frame |-> kind, open_before |-> Len(seSessions), closed |-> 0, success |-> {}]

\* A tools/list frame from the host: _handle_tool_discovery starts a
\* decision and stores a session under a new id.
HandleToolDiscovery ==
    /\ UNCHANGED notSessionVars
    /\ seFrames.list < MaxListFrames
    /\ seDecisions' = seDecisions + 1
    /\ seSessions' = Append(seSessions, "discovery")
    /\ seFrames' = [seFrames EXCEPT !.list = @ + 1]
    /\ seLast' = Opened("tools/list")
    /\ UNCHANGED seLog

\* A tools/call frame from the host: _handle_tool_call_decision starts a
\* decision and a session under a new id, then records the selection and
\* the call on the decision.
HandleToolCallDecision ==
    /\ UNCHANGED notSessionVars
    /\ seFrames.call < MaxCallFrames
    /\ seDecisions' = seDecisions + 1
    /\ seSessions' = Append(seSessions, "execution")
    /\ seFrames' = [seFrames EXCEPT !.call = @ + 1]
    /\ seLast' = Opened("tools/call")
    /\ UNCHANGED seLog

\* An initialize frame from the host: _handle_mcp_initialization starts a
\* decision and stores no session.
HandleMcpInitialization ==
    /\ UNCHANGED notSessionVars
    /\ seFrames.init < MaxInitFrames
    /\ seDecisions' = seDecisions + 1
    /\ seFrames' = [seFrames EXCEPT !.init = @ + 1]
    /\ seLast' = Opened("initialize")
    /\ UNCHANGED <<seSessions, seLog>>

\* A frame from the server: _handle_tool_response runs when the frame has
\* a 'result' key; it pops the last key of the table and complete_decision
\* pops the decision, appends it to the log and persists it.
HandleServerFrame ==
    /\ UNCHANGED notSessionVars
    /\ seFrames.response < MaxResponseFrames
    /\ \E frame \in ResponseShapes :
         LET closes == HandlesResponse(frame) /\ seSessions # <<>>
         IN  /\ seSessions' = IF closes THEN SubSeq(seSessions, 1, Len(seSessions) - 1)
                              ELSE seSessions
             /\ seDecisions' = IF closes THEN seDecisions - 1 ELSE seDecisions
             /\ seLog' = IF closes THEN seLog + 1 ELSE seLog
             /\ seLast' = [frame |-> FrameKind(frame),
                           open_before |-> Len(seSessions),
                           closed |-> IF closes THEN Len(seSessions) ELSE 0,
                           success |-> IF closes THEN {ResponseSuccess(frame)} ELSE {}]
    /\ seFrames' = [seFrames EXCEPT !.response = @ + 1]

SessionInit == SessionIdle

SessionSpecInit == SessionInit /\ ProxyIdle /\ CfgIdle /\ UnwrapIdle /\ StoreIdle /\ ReadIdle /\ FlowIdle /\ RerunIdle /\ ExportIdle /\ IdentIdle /\ PairIdle /\ CountIdle

SessionNext ==
    \/ HandleToolDiscovery
    \/ HandleToolCallDecision
    \/ HandleMcpInitialization
    \/ HandleServerFrame

SessionSpec == SessionSpecInit /\ [][SessionNext]_vars

\* C26: every server->host frame that carries a result or an error closes
\* the most recently opened session that is still open (it is removed from
\* the table and its decision is completed and persisted), with success =
\* true exactly when the frame has a non-null result and no error field:
\* an error frame closes the session with success = false.
C26_ResponseClosesLatestSession ==
    (seLast.frame \in {"result", "null_result", "error"} /\ seLast.open_before > 0) =>
        /\ seLast.closed = seLast.open_before
        /\ seLast.success = {seLast.frame = "result"}

\* The same for the frames that have a 'result' key.
ResultClosesLatestSession ==
    (seLast.frame \in {"result", "null_result"} /\ seLast.open_before > 0) =>
        /\ seLast.closed = seLast.open_before
        /\ seLast.success = {seLast.frame = "result"}

\* C27: at all times the in-memory session table holds at most 64
\* sessions, for any sequence of tools/list, tools/call, initialize and
\* response frames.
C27_SessionTableBounded == Len(seSessions) <= 64

(***************************************************************************)
(* Lifecycle of a proxy instance                                           *)
(***************************************************************************)
\* The phase of start_proxy_server: before Popen, in the 100 ms sleep after
\* it, forwarding with the child alive, forwarding with the child gone, and
\* after gather returned or the except clause ran.
Phase ==
    CASE mainPc = "idle" -> "idle"
      [] mainPc = "sleeping" -> "spawning"
      [] mainPc = "running" /\ child = "alive" -> "running"
      [] mainPc = "running" /\ child # "alive" -> "draining"
      [] OTHER -> "terminated"

PhaseRank(phase) ==
    CASE phase = "idle" -> 0
      [] phase = "spawning" -> 1
      [] phase = "running" -> 2
      [] phase = "draining" -> 3
      [] OTHER -> 4

\* The phases are passed in their order, never backwards.
PhaseNeverBackwards == [][PhaseRank(Phase') >= PhaseRank(Phase)]_vars

\* No host-to-server event of the stream comes from a line that was read
\* after the child had exited.
NoCaptureAfterChildExit ==
    \A atExit \in hostReadAtExit :
        \A i \in 1..Len(messages) :
            messages[i].direction = LLM_TO_MCP_CLIENT => messages[i].n <= atExit

\* C28: a proxy instance moves through idle, spawning, running, draining,
\* terminated in that order and never backwards, and once the child has
\* exited a line subsequently read from the host is not recorded as a
\* host-to-server event.
C28_CaptureOnlyWhileRunning == PhaseNeverBackwards /\ []NoCaptureAfterChildExit

(***************************************************************************)
(* Flow identifiers: TimelineAnalyzer(time_window_seconds) and the flow_id *)
(* of each flow group_into_flows returns.  Times are naive datetimes, held *)
(* in milliseconds.                                                        *)
(***************************************************************************)
MaxIdEvents == 3

Second == 1000
Hour == 3600 * Second

\* Values of time_window_seconds a caller may construct the analyzer with.
Windows == {0, 1, 30}

\* Local zones: one without transitions, and one that skips the first hour
\* of the model's time scale (the clocks go forward by one hour).
Zones == {"utc", "dst"}

\* Milliseconds between consecutive events.
IdGaps == {500, Second, 30 * Second + 500, Hour}

RECURSIVE TimeLists(_)
TimeLists(n) ==
    IF n = 0 THEN {<<>>}
    ELSE LET shorter == TimeLists(n - 1)
         IN  shorter \cup
             {Append(t, IF t = <<>> THEN 30 * 60 * Second
                        ELSE t[Len(t)] + g) : t \in shorter, g \in IdGaps}

\* The parsed_timestamp of the first event of each flow: the loop of
\* group_into_flows, `last` being the time of current_flow[-1] ({} while
\* current_flow is empty).
RECURSIVE FlowStartTimes(_, _, _)
FlowStartTimes(times, last, window) ==
    IF times = <<>> THEN <<>>
    ELSE IF last = {} \/ (\E l \in last : times[1] - l > window * Second)
         THEN <<times[1]>> \o FlowStartTimes(Tail(times), {times[1]}, window)
         ELSE FlowStartTimes(Tail(times), {times[1]}, window)

\* int(start_time.timestamp()): a naive datetime is read as local time.  In
\* a zone that skips an hour, a time inside the skipped hour is read with the
\* offset in force before the transition and a time after it with the new
\* offset, one hour less.
flow_id(start_time, zone) ==
    LET epoch == IF zone = "dst" /\ start_time >= Hour
                 THEN start_time - Hour
                 ELSE start_time
    IN  epoch \div Second

\* The streams are loaded and the analyzer is constructed.
IdentInit ==
    /\ fiWindow \in Windows
    /\ fiZone \in Zones
    /\ fiTimes \in TimeLists(MaxIdEvents)
    /\ fiIds = {}

\* group_into_flows(timeline_events)
GroupTimes ==
    /\ UNCHANGED notIdentVars
    /\ fiTimes # <<>>
    /\ fiIds = {}
    /\ fiIds' = {LET starts == FlowStartTimes(fiTimes, {}, fiWindow)
                 IN  [k \in 1..Len(starts) |-> flow_id(starts[k], fiZone)]}
    /\ UNCHANGED <<fiWindow, fiZone, fiTimes>>

IdentSpecInit == IdentInit /\ ProxyIdle /\ CfgIdle /\ UnwrapIdle /\ StoreIdle /\ ReadIdle /\ FlowIdle /\ RerunIdle /\ ExportIdle /\ SessionIdle /\ PairIdle /\ CountIdle

IdentNext == GroupTimes

IdentSpec == IdentSpecInit /\ [][IdentNext]_vars

\* C40: within one correlator run, for any configured time_window_seconds,
\* all returned flows have pairwise distinct flow_id values.
C40_FlowIdsDistinct ==
    \A ids \in fiIds :
        \A i, j \in 1..Len(ids) : i # j => ids[i] # ids[j]

\* The same for a window of at least one second in a zone without
\* transitions.
FlowIdsDistinctForWholeWindowInUtc ==
    (fiWindow >= 1 /\ fiZone = "utc") => C40_FlowIdsDistinct

(***************************************************************************)
(* Decision sessions of the enhanced proxy, by identity: which request     *)
(* opened a session, which response completed its decision.                *)
(***************************************************************************)
MaxRequests == 3
MaxTicks == 2

RequestMethods == {"tools/list", "tools/call", "initialize"}

\* f"discovery_{ms}", f"call_{ms}", f"init_{ms}"
SessionId(prefix, ms) == <<prefix, ms>>

\* LLMDecisionInterceptor.capture_llm_reasoning with a decision_id given:
\* active_decisions[decision_id] = a new trace.
capture_llm_reasoning(active, decision_id) ==
    {d \in active : d.id # decision_id} \cup {[id |-> decision_id, tool_calls |-> <<>>]}

\* capture_tool_call: appends to the trace when decision_id is known;
\* `request` stands for the call (its tool name and arguments).
capture_tool_call(active, decision_id, request) ==
    {IF d.id = decision_id THEN [d EXCEPT !.tool_calls = Append(@, request)] ELSE d :
        d \in active}

\* self.active_reasoning_sessions[session_id] = {...}: a key the dict
\* already has keeps its place.
PutSession(sessions, session_id, phase) ==
    LET entry == [session_id |-> session_id, decision_id |-> session_id, phase |-> phase]
    IN  IF \E i \in 1..Len(sessions) : sessions[i].session_id = session_id
        THEN [i \in 1..Len(sessions) |->
                 IF sessions[i].session_id = session_id THEN entry ELSE sessions[i]]
        ELSE Append(sessions, entry)

\* The host sends request number paSent + 1 with the given method.
SendRequest(method) ==
    /\ paSent < MaxRequests
    /\ paSent' = paSent + 1
    /\ paOutstanding' = paOutstanding \cup {[id |-> paSent + 1, method |-> method]}

handle_tool_discovery ==
    /\ UNCHANGED notPairVars
    /\ SendRequest("tools/list")
    /\ LET session_id == SessionId("discovery", paNow)
       IN  /\ paActive' = capture_llm_reasoning(paActive, session_id)
           /\ paSessions' = PutSession(paSessions, session_id, "discovery")
    /\ UNCHANGED <<paNow, paLog>>

\* capture_tool_selection changes tools_selected, reasoning and confidence
\* of the trace only, which this part does not hold.
handle_tool_call_decision ==
    /\ UNCHANGED notPairVars
    /\ SendRequest("tools/call")
    /\ LET session_id == SessionId("call", paNow)
           known == \E i \in 1..Len(paSessions) : paSessions[i].session_id = session_id
           started == IF known THEN paActive
                      ELSE capture_llm_reasoning(paActive, session_id)
       IN  /\ paSessions' = IF known THEN paSessions
                            ELSE PutSession(paSessions, session_id, "execution")
           /\ paActive' = capture_tool_call(started, session_id, paSent + 1)
    /\ UNCHANGED <<paNow, paLog>>

handle_mcp_initialization ==
    /\ UNCHANGED notPairVars
    /\ SendRequest("initialize")
    /\ paActive' = capture_llm_reasoning(paActive, SessionId("init", paNow))
    /\ UNCHANGED <<paNow, paSessions, paLog>>

\* The server answers an outstanding request with a result or an error.
\* _handle_tool_response runs for a frame with a 'result' key: it pops the
\* last key of the table, and complete_decision pops the decision, appends
\* it to decision_log and persists it with the success of this frame.
handle_tool_response ==
    /\ UNCHANGED notPairVars
    /\ \E request \in paOutstanding, frame \in ResponseShapes :
         LET closes == HandlesResponse(frame) /\ paSessions # <<>>
             decision_id == paSessions[Len(paSessions)].decision_id
             traces == {d \in paActive : d.id = decision_id}
         IN  /\ paOutstanding' = paOutstanding \ {request}
             /\ paSessions' = IF closes THEN SubSeq(paSessions, 1, Len(paSessions) - 1)
                              ELSE paSessions
             /\ paActive' = IF closes THEN paActive \ traces ELSE paActive
             /\ paLog' = IF closes /\ traces # {}
                         THEN Append(paLog,
                                  [id |-> decision_id,
                                   tool_calls |-> (CHOOSE d \in traces : TRUE).tool_calls,
                                   success |-> ResponseSuccess(frame),
                                   response_to |-> request.id,
                                   response_method |-> request.method])
                         ELSE paLog
    /\ UNCHANGED <<paNow, paSent>>

\* A millisecond passes.
Tick ==
    /\ UNCHANGED notPairVars
    /\ paNow < MaxTicks
    /\ paNow' = paNow + 1
    /\ UNCHANGED <<paSent, paOutstanding, paSessions, paActive, paLog>>

PairInit == PairIdle

PairSpecInit == PairInit /\ ProxyIdle /\ CfgIdle /\ UnwrapIdle /\ StoreIdle /\ ReadIdle /\ FlowIdle /\ RerunIdle /\ ExportIdle /\ SessionIdle /\ IdentIdle /\ CountIdle

PairNext ==
    \/ handle_tool_discovery
    \/ handle_tool_call_decision
    \/ handle_mcp_initialization
    \/ handle_tool_response
    \/ Tick

PairSpec == PairSpecInit /\ [][PairNext]_vars

Range(seq) == {seq[i] : i \in 1..Len(seq)}

\* C34: when two tools/call requests are outstanding at once (request A,
\* request B, then the response to A, then the response to B), each response
\* completes the decision session opened by its own request, so every
\* persisted decision's success value belongs to the same call as its
\* recorded tool_calls.
C34_ResponseCompletesOwnSession ==
    \A i \in 1..Len(paLog) :
        (paLog[i].tool_calls # <<>> /\ paLog[i].response_method = "tools/call")
            => paLog[i].response_to \in Range(paLog[i].tool_calls)

\* C35: at all times the set of decisions open in the recorder
\* (active_decisions) equals the set of decision ids held by the proxy's
\* open-session table (active_reasoning_sessions).
C35_RecorderMatchesSessionTable ==
    {d.id : d \in paActive} = {paSessions[i].decision_id : i \in 1..Len(paSessions)}

\* The same without initialize frames: the decisions of the sessions the
\* proxy stores.
RecorderHoldsSessionDecisions ==
    {paSessions[i].decision_id : i \in 1..Len(paSessions)} \subseteq {d.id : d \in paActive}

(***************************************************************************)
(* mcp_interactions_total: the events the proxy captures and the events    *)
(* the export loop of OpenTelemetryIntegration adds to the counter.        *)
(***************************************************************************)
MaxCaptured == 11

\* for message in messages[-10:]
LastInteractions == 10
RecentMessages(n) == {i \in 1..n : i > n - LastInteractions}

\* server_audit_callback: the event is appended to the messages file.  The
\* trace is sent to the integrations only if hasattr(trace, 'to_dict'), and
\* MCPMessageTrace defines no to_dict; a dict handed to send_trace_data
\* would make it raise on trace_msg.direction.value before the counter is
\* touched.  Either way the callback adds nothing to the counter.
CaptureEvent ==
    /\ UNCHANGED notCountVars
    /\ ctPc # "off"
    /\ ctCaptured < MaxCaptured
    /\ ctCaptured' = ctCaptured + 1
    /\ UNCHANGED <<ctCounted, ctPc>>

\* One iteration of _continuous_export: _export_recent_data loads the
\* messages of the last hour and, when there are flows, adds one to the
\* counter for each of the last ten messages.  When the analysis raises,
\* the except clause sends the fallback metrics and nothing is counted.
ExportRecent(raises) ==
    /\ UNCHANGED notCountVars
    /\ ctPc = "export"
    /\ ctCounted' = IF raises THEN ctCounted
                    ELSE ctCounted \cup RecentMessages(ctCaptured)
    /\ ctPc' = "sleep"
    /\ UNCHANGED ctCaptured

ExportRecentData == \E raises \in BOOLEAN : ExportRecent(raises)

\* await asyncio.sleep(self.export_interval) returns.
IntervalElapses ==
    /\ UNCHANGED notCountVars
    /\ ctPc = "sleep"
    /\ ctPc' = "export"
    /\ UNCHANGED <<ctCaptured, ctCounted>>

\* _start_real_time_export has created the export task.
CountInit ==
    /\ ctCaptured = 0
    /\ ctCounted = {}
    /\ ctPc = "export"

CountSpecInit == CountInit /\ ProxyIdle /\ CfgIdle /\ UnwrapIdle /\ StoreIdle /\ ReadIdle /\ FlowIdle /\ RerunIdle /\ ExportIdle /\ SessionIdle /\ IdentIdle /\ PairIdle

CountNext == CaptureEvent \/ ExportRecentData \/ IntervalElapses

\* The event loop keeps running the export task: the sleep always ends, and
\* the analysis does not raise in every iteration forever.
CountSpec ==
    /\ CountSpecInit
    /\ [][CountNext]_vars
    /\ WF_vars(IntervalElapses)
    /\ SF_vars(ExportRecent(FALSE))

\* C31: every MCP event captured while the exporter is running is counted
\* in mcp_interactions_total at least once, regardless of how many events
\* are captured between two consecutive export iterations.
C31_EveryCapturedEventCounted ==
    \A i \in 1..MaxCaptured : (ctCaptured >= i) ~> (i \in ctCounted)

\* The ten most recent events are counted.
RecentEventsCounted ==
    \A i \in 1..MaxCaptured :
        (ctCaptured >= i) ~> (i \in ctCounted \/ i <= ctCaptured - LastInteractions)

====
